---- MODULE Spec2Model ----
(***************************************************************************)
(* Model of the resilience layer of the SMALDA contract service:           *)
(*   - CircuitBreaker (src/contract/src/circuit_breaker.rs), one atomic    *)
(*     load / store / fetch_add / compare_exchange per step, so that       *)
(*     concurrent callers interleave between any two atomic operations;    *)
(*   - circuit_breaker::StellarClient::execute;                            *)
(*   - the ledger calls of src/contract/src/stellar.rs, run through the    *)
(*     retry runner (retry_async, whose source is not in the repository    *)
(*     snapshot and is modelled from section 4.2 of the specification).    *)
(***************************************************************************)
EXTENDS Integers, Sequences, FiniteSets, TLC

(* ------------------------------ bounds -------------------------------- *)
MaxFailureThreshold == 2
MaxSuccessThreshold == 2
MaxTimeout == 2
MaxTime == 3
MaxAttempts == 3
MaxRecords == 2
MaxRequests == 2
MaxCacheCalls == 3
MaxUrls == 2
MaxSecretLen == 2
MaxBodyLen == 1
MaxParams == 3
MaxPages == 2
MaxAsciiRun == 29
MaxWideRun == 20

(* --------------------------- program constants ------------------------ *)
STATE_CLOSED == 0
STATE_OPEN == 1
STATE_HALF_OPEN == 2

\* Two callers share the breaker: enough for every race between two calls.
Threads == {1, 2}
None == 0 - 1

VARIABLES
  \* CircuitBreaker fields
  state, failure_count, success_count, opened_at,
  \* CircuitBreakerConfig (immutable after construction)
  failure_threshold, success_threshold, timeout_secs,
  \* SystemTime::now() in whole seconds
  now,
  \* per caller: position, top-level operation, breaker method under way,
  \* locals of the method, value returned
  pc, op, meth, st, oa, el, ret,
  \* execute(f): result of the wrapped call and number of times f was invoked
  f_res, f_calls,
  \* history variables used by the properties only
  open_all, rem_base, rem_last,
  \* history: the clock value each caller's trip() read, and the one read by
  \* the trip() that stored Open last
  trip_read, trip_at,
  cas_wins, ho_window, ho_live, read_win, read_live, lost_cas, won_cas,
  fails_since, ho_succ, streak, pre, admitted, reports,
  \* RetryConfig.max_attempts
  max_attempts,
  \* per ledger call of stellar.rs: number of the attempt, current backoff
  \* delay, result of the latest attempt, value returned
  attempt, delay, outcome, lres,
  \* the ledger's answers to the attempts of the call so far (history)
  hist,
  \* verify_hash in detail: the hash asked for, the records of the page the
  \* ledger answered the latest attempt with, the result of that attempt
  doc_hash, page, vres,
  \* the cache: which CacheBackend variant, the entries it holds; the requests
  \* under way in the handlers of lib.rs, one per task
  backend, store, req,
  \* the RwLock of the in-process backend: the tasks holding a read guard
  \* and the tasks holding the write guard
  rwlock,
  \* history: what the claims expect each key to hold, requests started
  expect, nreq,
  \* a batch verify request: its hashes, where it is, its answer
  batch,
  \* webhooks: config.urls and config.secret, the delivery task spawned per
  \* url, the task running dispatch, the caller of dispatch or fire, what
  \* fire has logged
  urls, config_secret, task, dsp, caller, wlog,
  \* a call of one of the pure functions (its arguments, its result), and a
  \* call of get_hash_history (the ledger's pages, the cursor, the records
  \* gathered so far)
  calc, hh

breakerVars == <<state, failure_count, success_count, opened_at>>
cfgVars == <<failure_threshold, success_threshold, timeout_secs>>
localVars == <<pc, op, meth, st, oa, el, ret, f_res, f_calls>>
openHist == <<open_all, rem_base, rem_last, trip_read, trip_at>>
casHist == <<cas_wins, ho_window, ho_live, read_win, read_live, lost_cas, won_cas>>
seqHist == <<fails_since, ho_succ, streak, pre>>
callHist == <<admitted, reports>>
ledgerVars == <<max_attempts, attempt, delay, outcome, lres, hist>>
verifyVars == <<doc_hash, page, vres>>
\* State outside the breaker and the retry runner
cacheVars == <<backend, store, rwlock, req, expect, nreq, batch>>
hookVars == <<urls, config_secret, task, dsp, caller, wlog>>
pureVars == <<calc, hh>>
extVars == <<verifyVars, cacheVars, hookVars, pureVars>>
coreVars == <<breakerVars, cfgVars, now, localVars, openHist, casHist, seqHist,
              callHist, ledgerVars>>
vars == <<coreVars, extVars>>

(* ------------------------------ helpers ------------------------------- *)
\* a subtraction that does not saturate
SatSub_Plain(a, b) == a - b

\* u64::saturating_sub
SatSub(a, b) == IF a >= b THEN a - b ELSE 0

Min(a, b) == IF a <= b THEN a ELSE b

NoRet == [kind |-> "none", remaining |-> 0]
OkRet == [kind |-> "ok", remaining |-> 0]
UnitRet == [kind |-> "unit", remaining |-> 0]
\* CircuitOpenError { remaining_secs }
CircuitOpenError(r) == [kind |-> "circuit_open_error", remaining |-> r]
\* StellarError::CircuitOpen(e) / StellarError::Http(msg)
StellarCircuitOpen(r) == [kind |-> "CircuitOpen", remaining |-> r]
StellarHttp == [kind |-> "Http", remaining |-> 0]

NoSnap == [state |-> None, failure_count |-> None, success_count |-> None,
           opened_at |-> None, now |-> None]
Snap == [state |-> state, failure_count |-> failure_count,
         success_count |-> success_count, opened_at |-> opened_at, now |-> now]

\* CircuitBreaker::state()
CircuitState == CASE state = STATE_OPEN -> "Open"
                  [] state = STATE_HALF_OPEN -> "HalfOpen"
                  [] OTHER -> "Closed"

\* The breaker is Open and its timeout, counted from opened_at, has not elapsed.
CoolingDown(s, o, n) == s = STATE_OPEN /\ SatSub(n, o) < timeout_secs

(* --------------------------- history updates -------------------------- *)
\* Follows, for every before_request() under way, whether the breaker has been
\* cooling down during the whole call, and remembers the remaining time most
\* recently reported during the current cool-down.  `starting' is TRUE in the
\* step that begins a call of t; `reported' is the remaining_secs of the
\* CircuitOpenError returned by this step, or None.
TrackOpen(t, starting, reported) ==
  LET cool == CoolingDown(state', opened_at', now')
      all == [u \in Threads |->
                IF u = t /\ starting THEN cool /\ meth'[u] = "before_request"
                ELSE IF pc[u] \in {"idle", "done"} THEN open_all[u]
                ELSE open_all[u] /\ cool]
  IN /\ UNCHANGED <<ledgerVars, extVars>>
     /\ open_all' = all
     /\ rem_base' = [u \in Threads |->
                       IF ~all[u] THEN None
                       ELSE IF u = t /\ starting THEN rem_last
                       ELSE rem_base[u]]
     /\ rem_last' = IF ~cool THEN None
                    ELSE IF reported # None /\ all[t] THEN reported
                    ELSE rem_last
     /\ trip_read' = IF pc[t] = "trip_oa" /\ pc'[t] = "trip_state"
                     THEN [trip_read EXCEPT ![t] = now]
                     ELSE trip_read
     /\ trip_at' = IF pc[t] = "trip_state" /\ pc'[t] = "trip_fc"
                   THEN trip_read[t]
                   ELSE trip_at

\* the `?' forgotten: the wrapped call runs whatever before_request returned
AfterAdmission_Ignored(v) == "ex_call"

\* circuit_breaker.rs:222-224: `before_request().map_err(..)?' leaves execute
\* on Err and goes on to the wrapped call on Ok.
AfterAdmission(v) == IF v.kind = "ok" THEN "ex_call" ELSE "done"

\* What the caller of a breaker method does with the value v it returns.
\* A direct call ends; inside execute (circuit_breaker.rs:222-235) an Err from
\* before_request is mapped to StellarError::CircuitOpen and returned, an Ok
\* leads to the wrapped call, and the report after the wrapped call ends
\* execute with the wrapped call's result.
Return(t, v) ==
  IF op[t] = "execute"
  THEN IF meth[t] = "before_request"
       THEN /\ pc' = [pc EXCEPT ![t] = AfterAdmission(v)]
            /\ ret' = IF AfterAdmission(v) = "done"
                      THEN [ret EXCEPT ![t] = StellarCircuitOpen(v.remaining)]
                      ELSE ret
            /\ streak' = streak
            /\ admitted' = [admitted EXCEPT ![t] = v.kind = "ok"]
       ELSE /\ pc' = [pc EXCEPT ![t] = "done"]
            /\ ret' = [ret EXCEPT ![t] = IF f_res[t] = "ok" THEN OkRet ELSE StellarHttp]
            /\ admitted' = admitted
            /\ streak' = IF streak = None THEN None
                         ELSE IF f_res[t] = "ok" THEN 0
                         ELSE Min(streak + 1, failure_threshold)
  ELSE /\ pc' = [pc EXCEPT ![t] = "done"]
       /\ ret' = [ret EXCEPT ![t] = v]
       /\ streak' = IF streak = None THEN None ELSE 0
       /\ admitted' = admitted

(* ------------------------ values of stellar.rs ------------------------ *)
\* Option<T>
NoneV == [some |-> FALSE, val |-> 0]
SomeV(v) == [some |-> TRUE, val |-> v]

\* Text is a sequence of characters.
NoText == << >>
NoMemo == [some |-> FALSE, text |-> NoText]
SomeMemo(s) == [some |-> TRUE, text |-> s]

\* str::contains: h occurs in m as a contiguous run of characters.
Contains(m, h) ==
  \E i \in 0..(Len(m) - Len(h)) : SubSeq(m, i + 1, i + Len(h)) = h

\* stellar.rs:161-165, 171-175, 204-208: the result for "no transaction found"
Unverified == [verified |-> FALSE, transaction_id |-> NoneV, timestamp |-> NoneV]

\* The result of one attempt of verify_hash: Ok(VerificationResult) or Err.
VOk(r) == [ok |-> TRUE, err |-> "none", result |-> r]
VErr(e) == [ok |-> FALSE, err |-> e, result |-> Unverified]
NoVRes == VErr("none")

\* State outside the breaker and the retry runner while it is not in use.
InitVerifyIdle ==
  /\ doc_hash = NoText
  /\ page = << >>
  /\ vres = NoVRes


(* ------------------------------- Init --------------------------------- *)
\* CircuitBreaker::new
InitBreaker ==
  /\ state = STATE_CLOSED
  /\ failure_count = 0
  /\ success_count = 0
  /\ opened_at = 0
  /\ failure_threshold \in 1..MaxFailureThreshold
  /\ success_threshold \in 1..MaxSuccessThreshold
  /\ timeout_secs \in 1..MaxTimeout
  /\ now = 1

InitLocals ==
  /\ pc = [t \in Threads |-> "idle"]
  /\ op = [t \in Threads |-> "none"]
  /\ meth = [t \in Threads |-> "none"]
  /\ st = [t \in Threads |-> None]
  /\ oa = [t \in Threads |-> None]
  /\ el = [t \in Threads |-> None]
  /\ ret = [t \in Threads |-> NoRet]
  /\ f_res = [t \in Threads |-> "none"]
  /\ f_calls = [t \in Threads |-> 0]

InitHist ==
  /\ open_all = [t \in Threads |-> FALSE]
  /\ rem_base = [t \in Threads |-> None]
  /\ rem_last = None
  /\ trip_read = [t \in Threads |-> None]
  /\ trip_at = None
  /\ cas_wins = 0
  /\ ho_window = FALSE
  /\ ho_live = FALSE
  /\ read_win = [t \in Threads |-> FALSE]
  /\ read_live = [t \in Threads |-> FALSE]
  /\ lost_cas = [t \in Threads |-> FALSE]
  /\ won_cas = [t \in Threads |-> FALSE]
  /\ pre = [t \in Threads |-> NoSnap]
  /\ admitted = [t \in Threads |-> FALSE]
  /\ reports = [t \in Threads |-> 0]

NoOutcome == [ok |-> FALSE, val |-> "none"]

InitLedgerLocals ==
  /\ attempt = [t \in Threads |-> 0]
  /\ delay = [t \in Threads |-> 0]
  /\ outcome = [t \in Threads |-> NoOutcome]
  /\ lres = [t \in Threads |-> NoOutcome]
  /\ hist = [t \in Threads |-> << >>]

(* --------------------------- the clock -------------------------------- *)
Tick ==
  /\ now < MaxTime
  /\ now' = now + 1
  /\ UNCHANGED <<breakerVars, cfgVars, localVars, casHist, seqHist, callHist>>
  /\ TrackOpen(1, FALSE, None)

(* ---------------------- a caller starts a method ---------------------- *)
FirstLabel(m) == CASE m = "before_request" -> "br_load"
                   [] m = "on_success" -> "os_load"
                   [] m = "on_failure" -> "of_load"

\* History kept for the one-caller specification: on_failure() calls since the
\* last on_success(), on_success() calls since HalfOpen was entered.
SeqCount(m) ==
  /\ fails_since' = IF fails_since = None THEN None
                    ELSE IF m = "on_success" THEN 0
                    ELSE IF m = "on_failure"
                         THEN Min(fails_since + 1, MaxFailureThreshold + 1)
                    ELSE fails_since
  /\ ho_succ' = IF ho_succ = None THEN None
                ELSE IF m = "on_success"
                     THEN Min(ho_succ + 1, MaxSuccessThreshold + 1)
                ELSE ho_succ

Enter(t, m) ==
  /\ pc' = [pc EXCEPT ![t] = FirstLabel(m)]
  /\ meth' = [meth EXCEPT ![t] = m]
  /\ st' = [st EXCEPT ![t] = None]
  /\ pre' = [pre EXCEPT ![t] = IF fails_since = None THEN NoSnap ELSE Snap]
  /\ lost_cas' = [lost_cas EXCEPT ![t] = FALSE]
  /\ won_cas' = [won_cas EXCEPT ![t] = FALSE]
  /\ read_win' = [read_win EXCEPT ![t] = FALSE]
  /\ read_live' = [read_live EXCEPT ![t] = FALSE]
  /\ SeqCount(m)

\* A direct call cb.before_request() / cb.on_success() / cb.on_failure().
Call(t, m) ==
  /\ pc[t] = "idle"
  /\ op' = [op EXCEPT ![t] = m]
  /\ Enter(t, m)
  /\ UNCHANGED <<breakerVars, cfgVars, now, oa, el, ret, f_res, f_calls,
                 cas_wins, ho_window, ho_live, streak, callHist>>
  /\ TrackOpen(t, TRUE, None)

\* The caller has looked at the returned value; its locals are dropped.
Ack(t) ==
  /\ pc[t] = "done"
  /\ pc' = [pc EXCEPT ![t] = "idle"]
  /\ op' = [op EXCEPT ![t] = "none"]
  /\ meth' = [meth EXCEPT ![t] = "none"]
  /\ st' = [st EXCEPT ![t] = None]
  /\ oa' = [oa EXCEPT ![t] = None]
  /\ el' = [el EXCEPT ![t] = None]
  /\ ret' = [ret EXCEPT ![t] = NoRet]
  /\ f_res' = [f_res EXCEPT ![t] = "none"]
  /\ f_calls' = [f_calls EXCEPT ![t] = 0]
  /\ pre' = [pre EXCEPT ![t] = NoSnap]
  /\ lost_cas' = [lost_cas EXCEPT ![t] = FALSE]
  /\ won_cas' = [won_cas EXCEPT ![t] = FALSE]
  /\ read_win' = [read_win EXCEPT ![t] = FALSE]
  /\ read_live' = [read_live EXCEPT ![t] = FALSE]
  /\ open_all' = [open_all EXCEPT ![t] = FALSE]
  /\ rem_base' = [rem_base EXCEPT ![t] = None]
  /\ admitted' = [admitted EXCEPT ![t] = FALSE]
  /\ reports' = [reports EXCEPT ![t] = 0]
  /\ attempt' = [attempt EXCEPT ![t] = 0]
  /\ delay' = [delay EXCEPT ![t] = 0]
  /\ outcome' = [outcome EXCEPT ![t] = NoOutcome]
  /\ lres' = [lres EXCEPT ![t] = NoOutcome]
  /\ hist' = [hist EXCEPT ![t] = << >>]
  /\ trip_read' = [trip_read EXCEPT ![t] = None]
  /\ UNCHANGED <<breakerVars, cfgVars, now, rem_last, trip_at, cas_wins, ho_window,
                 ho_live, fails_since, ho_succ, streak, max_attempts,
                 extVars>>

\* single-probe gating: a HalfOpen breaker denies a caller while another
\* caller admitted in HalfOpen has not been taken back
BrLoad_SingleProbe(t) ==
  /\ pc[t] = "br_load"
  /\ st' = [st EXCEPT ![t] = state]
  /\ read_win' = [read_win EXCEPT ![t] = ho_window]
  /\ read_live' = [read_live EXCEPT ![t] = ho_live]
  /\ IF state = STATE_OPEN
     THEN /\ pc' = [pc EXCEPT ![t] = "br_opened_at"]
          /\ UNCHANGED <<ret, streak, admitted>>
     ELSE IF /\ state = STATE_HALF_OPEN
             /\ \E u \in Threads \ {t} :
                   /\ pc[u] = "done" /\ meth[u] = "before_request"
                   /\ st[u] = STATE_HALF_OPEN
          THEN Return(t, CircuitOpenError(0))
          ELSE Return(t, OkRet)
  /\ UNCHANGED <<breakerVars, cfgVars, now, op, meth, oa, el, f_res, f_calls,
                 cas_wins, ho_window, ho_live, lost_cas, won_cas,
                 fails_since, ho_succ, pre, reports>>
  /\ TrackOpen(t, FALSE, None)

(* ------------------- CircuitBreaker::before_request ------------------- *)
\* circuit_breaker.rs:82-84,111-115: load the state; Closed and HalfOpen allow.
BrLoad(t) ==
  /\ pc[t] = "br_load"
  /\ st' = [st EXCEPT ![t] = state]
  /\ read_win' = [read_win EXCEPT ![t] = ho_window]
  /\ read_live' = [read_live EXCEPT ![t] = ho_live]
  /\ IF state = STATE_OPEN
     THEN /\ pc' = [pc EXCEPT ![t] = "br_opened_at"]
          /\ UNCHANGED <<ret, streak, admitted>>
     ELSE Return(t, OkRet)
  /\ UNCHANGED <<breakerVars, cfgVars, now, op, meth, oa, el, f_res, f_calls,
                 cas_wins, ho_window, ho_live, lost_cas, won_cas,
                 fails_since, ho_succ, pre, reports>>
  /\ TrackOpen(t, FALSE, None)

\* circuit_breaker.rs:87
BrOpenedAt(t) ==
  /\ pc[t] = "br_opened_at"
  /\ oa' = [oa EXCEPT ![t] = opened_at]
  /\ pc' = [pc EXCEPT ![t] = "br_now"]
  /\ UNCHANGED <<breakerVars, cfgVars, now, op, meth, st, el, ret, f_res,
                 f_calls, casHist, seqHist, callHist>>
  /\ TrackOpen(t, FALSE, None)

\* the timeout test written with > instead of >=
BrNow_Gt(t) ==
  LET elapsed == SatSub(now, oa[t]) IN
  /\ pc[t] = "br_now"
  /\ el' = [el EXCEPT ![t] = elapsed]
  /\ UNCHANGED <<breakerVars, cfgVars, now, op, meth, st, oa, f_res, f_calls,
                 casHist, fails_since, ho_succ, pre, reports>>
  /\ IF elapsed > timeout_secs
     THEN /\ pc' = [pc EXCEPT ![t] = "br_cas"]
          /\ UNCHANGED <<ret, streak, admitted>>
          /\ TrackOpen(t, FALSE, None)
     ELSE /\ Return(t, CircuitOpenError(timeout_secs - elapsed))
          /\ TrackOpen(t, FALSE, timeout_secs - elapsed)

\* before_request looping again, instead of denying, while the timeout has
\* not elapsed
BrNow_Spins(t) ==
  LET elapsed == SatSub(now, oa[t]) IN
  /\ pc[t] = "br_now"
  /\ el' = [el EXCEPT ![t] = elapsed]
  /\ UNCHANGED <<breakerVars, cfgVars, now, op, meth, st, oa, f_res, f_calls,
                 casHist, fails_since, ho_succ, pre, reports>>
  /\ pc' = [pc EXCEPT ![t] = IF elapsed >= timeout_secs THEN "br_cas"
                             ELSE "br_load"]
  /\ UNCHANGED <<ret, streak, admitted>>
  /\ TrackOpen(t, FALSE, None)

\* circuit_breaker.rs:88-89,107-109: read the clock; deny while the timeout
\* has not elapsed.
BrNow(t) ==
  LET elapsed == SatSub(now, oa[t]) IN
  /\ pc[t] = "br_now"
  /\ el' = [el EXCEPT ![t] = elapsed]
  /\ UNCHANGED <<breakerVars, cfgVars, now, op, meth, st, oa, f_res, f_calls,
                 casHist, fails_since, ho_succ, pre, reports>>
  /\ IF elapsed >= timeout_secs
     THEN /\ pc' = [pc EXCEPT ![t] = "br_cas"]
          /\ UNCHANGED <<ret, streak, admitted>>
          /\ TrackOpen(t, FALSE, None)
     ELSE /\ Return(t, CircuitOpenError(timeout_secs - elapsed))
          /\ TrackOpen(t, FALSE, timeout_secs - elapsed)

\* circuit_breaker.rs:91-103: the compare_exchange found STATE_OPEN and
\* stored STATE_HALF_OPEN.
BrCasWin(t) ==
  /\ state' = STATE_HALF_OPEN
  /\ pc' = [pc EXCEPT ![t] = "br_reset"]
  /\ won_cas' = [won_cas EXCEPT ![t] = TRUE]
  /\ cas_wins' = Min(cas_wins + 1, 2)
  /\ ho_window' = TRUE
  /\ ho_live' = TRUE
  /\ ho_succ' = IF ho_succ = None THEN None ELSE 0
  /\ UNCHANGED <<lost_cas, ret, streak, admitted>>

\* the loser of the compare_exchange denied instead of looping again
BrCasLose_Deny(t) ==
  /\ state' = state
  /\ pc' = [pc EXCEPT ![t] = "done"]
  /\ ret' = [ret EXCEPT ![t] = CircuitOpenError(0)]
  /\ lost_cas' = [lost_cas EXCEPT ![t] = TRUE]
  /\ UNCHANGED <<won_cas, cas_wins, ho_window, ho_live, ho_succ, streak,
                 admitted>>

\* circuit_breaker.rs:104-105: the compare_exchange failed, `continue'.
BrCasLose(t) ==
  /\ state' = state
  /\ pc' = [pc EXCEPT ![t] = "br_load"]
  /\ lost_cas' = [lost_cas EXCEPT ![t] = TRUE]
  /\ UNCHANGED <<won_cas, cas_wins, ho_window, ho_live, ho_succ, ret, streak,
                 admitted>>

\* a plain store of STATE_HALF_OPEN instead of the compare_exchange
BrCas_PlainStore(t) ==
  /\ pc[t] = "br_cas"
  /\ BrCasWin(t)
  /\ UNCHANGED <<failure_count, success_count, opened_at, cfgVars, now, op,
                 meth, st, oa, el, f_res, f_calls, read_win, read_live,
                 fails_since, pre, reports>>
  /\ TrackOpen(t, FALSE, None)

\* circuit_breaker.rs:91-105: compare_exchange(STATE_OPEN, STATE_HALF_OPEN)
BrCas(t) ==
  /\ pc[t] = "br_cas"
  /\ IF state = STATE_OPEN THEN BrCasWin(t) ELSE BrCasLose(t)
  /\ UNCHANGED <<failure_count, success_count, opened_at, cfgVars, now, op,
                 meth, st, oa, el, f_res, f_calls, read_win, read_live,
                 fails_since, pre, reports>>
  /\ TrackOpen(t, FALSE, None)

\* circuit_breaker.rs:101-102: the winner resets the success counter and is
\* allowed through.
BrReset(t) ==
  /\ pc[t] = "br_reset"
  /\ success_count' = 0
  /\ Return(t, OkRet)
  /\ UNCHANGED <<state, failure_count, opened_at, cfgVars, now, op, meth, st,
                 oa, el, f_res, f_calls, casHist, fails_since, ho_succ, pre, reports>>
  /\ TrackOpen(t, FALSE, None)

(* --------------------- CircuitBreaker::on_success --------------------- *)
\* circuit_breaker.rs:122-123,137
OsLoad(t) ==
  /\ pc[t] = "os_load"
  /\ st' = [st EXCEPT ![t] = state]
  /\ CASE state = STATE_CLOSED ->
            /\ pc' = [pc EXCEPT ![t] = "os_reset"]
            /\ UNCHANGED <<ret, streak, admitted>>
       [] state = STATE_HALF_OPEN ->
            /\ pc' = [pc EXCEPT ![t] = "os_inc"]
            /\ UNCHANGED <<ret, streak, admitted>>
       [] OTHER -> Return(t, UnitRet)
  /\ UNCHANGED <<breakerVars, cfgVars, now, op, meth, oa, el, f_res, f_calls,
                 casHist, fails_since, ho_succ, pre, reports>>
  /\ TrackOpen(t, FALSE, None)

\* circuit_breaker.rs:126
OsReset(t) ==
  /\ pc[t] = "os_reset"
  /\ failure_count' = 0
  /\ Return(t, UnitRet)
  /\ UNCHANGED <<state, success_count, opened_at, cfgVars, now, op, meth, st,
                 oa, el, f_res, f_calls, casHist, fails_since, ho_succ, pre, reports>>
  /\ TrackOpen(t, FALSE, None)

\* the threshold test written with > instead of >=
SuccessesReached_Gt(successes) == successes > success_threshold

\* circuit_breaker.rs:130
SuccessesReached(successes) == successes >= success_threshold

\* circuit_breaker.rs:129-130: fetch_add(1) + 1 compared with the threshold
OsInc(t) ==
  LET successes == success_count + 1 IN
  /\ pc[t] = "os_inc"
  /\ success_count' = successes
  /\ IF SuccessesReached(successes)
     THEN /\ pc' = [pc EXCEPT ![t] = "os_close_state"]
          /\ UNCHANGED <<ret, streak, admitted>>
     ELSE Return(t, UnitRet)
  /\ UNCHANGED <<state, failure_count, opened_at, cfgVars, now, op, meth, st,
                 oa, el, f_res, f_calls, casHist, fails_since, ho_succ, pre, reports>>
  /\ TrackOpen(t, FALSE, None)

\* circuit_breaker.rs:132
OsCloseState(t) ==
  /\ pc[t] = "os_close_state"
  /\ state' = STATE_CLOSED
  /\ ho_live' = FALSE
  /\ pc' = [pc EXCEPT ![t] = "os_close_fc"]
  /\ UNCHANGED <<failure_count, success_count, opened_at, cfgVars, now, op,
                 meth, st, oa, el, ret, f_res, f_calls, cas_wins, ho_window,
                 read_win, read_live, lost_cas, won_cas, seqHist, callHist>>
  /\ TrackOpen(t, FALSE, None)

\* circuit_breaker.rs:133
OsCloseFc(t) ==
  /\ pc[t] = "os_close_fc"
  /\ failure_count' = 0
  /\ pc' = [pc EXCEPT ![t] = "os_close_sc"]
  /\ UNCHANGED <<state, success_count, opened_at, cfgVars, now, op, meth, st,
                 oa, el, ret, f_res, f_calls, casHist, seqHist, callHist>>
  /\ TrackOpen(t, FALSE, None)

\* circuit_breaker.rs:134
OsCloseSc(t) ==
  /\ pc[t] = "os_close_sc"
  /\ success_count' = 0
  /\ Return(t, UnitRet)
  /\ UNCHANGED <<state, failure_count, opened_at, cfgVars, now, op, meth, st,
                 oa, el, f_res, f_calls, casHist, fails_since, ho_succ, pre, reports>>
  /\ TrackOpen(t, FALSE, None)

\* on_failure treating Open like HalfOpen: the failure of a call admitted
\* earlier trips again and restarts the cool-down
OfLoad_TripsWhenOpen(t) ==
  /\ pc[t] = "of_load"
  /\ st' = [st EXCEPT ![t] = state]
  /\ CASE state = STATE_CLOSED ->
            /\ pc' = [pc EXCEPT ![t] = "of_inc"]
            /\ UNCHANGED <<ret, streak, admitted>>
       [] OTHER ->
            /\ pc' = [pc EXCEPT ![t] = "trip_oa"]
            /\ UNCHANGED <<ret, streak, admitted>>
  /\ UNCHANGED <<breakerVars, cfgVars, now, op, meth, oa, el, f_res, f_calls,
                 casHist, fails_since, ho_succ, pre, reports>>
  /\ TrackOpen(t, FALSE, None)

(* --------------------- CircuitBreaker::on_failure --------------------- *)
\* circuit_breaker.rs:143-144,151-155
OfLoad(t) ==
  /\ pc[t] = "of_load"
  /\ st' = [st EXCEPT ![t] = state]
  /\ CASE state = STATE_CLOSED ->
            /\ pc' = [pc EXCEPT ![t] = "of_inc"]
            /\ UNCHANGED <<ret, streak, admitted>>
       [] state = STATE_HALF_OPEN ->
            /\ pc' = [pc EXCEPT ![t] = "trip_oa"]
            /\ UNCHANGED <<ret, streak, admitted>>
       [] OTHER -> Return(t, UnitRet)
  /\ UNCHANGED <<breakerVars, cfgVars, now, op, meth, oa, el, f_res, f_calls,
                 casHist, fails_since, ho_succ, pre, reports>>
  /\ TrackOpen(t, FALSE, None)

\* the threshold test written with > instead of >=
FailuresReached_Gt(failures) == failures > failure_threshold

\* circuit_breaker.rs:147
FailuresReached(failures) == failures >= failure_threshold

\* circuit_breaker.rs:146-149: fetch_add(1) + 1 compared with the threshold
OfInc(t) ==
  LET failures == failure_count + 1 IN
  /\ pc[t] = "of_inc"
  /\ failure_count' = failures
  /\ IF FailuresReached(failures)
     THEN /\ pc' = [pc EXCEPT ![t] = "trip_oa"]
          /\ UNCHANGED <<ret, streak, admitted>>
     ELSE Return(t, UnitRet)
  /\ UNCHANGED <<state, success_count, opened_at, cfgVars, now, op, meth, st,
                 oa, el, f_res, f_calls, casHist, fails_since, ho_succ, pre, reports>>
  /\ TrackOpen(t, FALSE, None)

(* ------------------------ CircuitBreaker::trip ------------------------ *)
\* circuit_breaker.rs:160
TripOpenedAt(t) ==
  /\ pc[t] = "trip_oa"
  /\ opened_at' = now
  /\ pc' = [pc EXCEPT ![t] = "trip_state"]
  /\ UNCHANGED <<state, failure_count, success_count, cfgVars, now, op, meth,
                 st, oa, el, ret, f_res, f_calls, casHist, seqHist, callHist>>
  /\ TrackOpen(t, FALSE, None)

\* circuit_breaker.rs:161
TripState(t) ==
  /\ pc[t] = "trip_state"
  /\ state' = STATE_OPEN
  /\ cas_wins' = IF state # STATE_OPEN THEN 0 ELSE cas_wins
  /\ ho_window' = FALSE
  /\ ho_live' = FALSE
  /\ pc' = [pc EXCEPT ![t] = "trip_fc"]
  /\ UNCHANGED <<failure_count, success_count, opened_at, cfgVars, now, op,
                 meth, st, oa, el, ret, f_res, f_calls, read_win, read_live,
                 lost_cas, won_cas, seqHist, callHist>>
  /\ TrackOpen(t, FALSE, None)

\* circuit_breaker.rs:162
TripFc(t) ==
  /\ pc[t] = "trip_fc"
  /\ failure_count' = 0
  /\ pc' = [pc EXCEPT ![t] = "trip_sc"]
  /\ UNCHANGED <<state, success_count, opened_at, cfgVars, now, op, meth, st,
                 oa, el, ret, f_res, f_calls, casHist, seqHist, callHist>>
  /\ TrackOpen(t, FALSE, None)

\* circuit_breaker.rs:163
TripSc(t) ==
  /\ pc[t] = "trip_sc"
  /\ success_count' = 0
  /\ Return(t, UnitRet)
  /\ UNCHANGED <<state, failure_count, opened_at, cfgVars, now, op, meth, st,
                 oa, el, f_res, f_calls, casHist, fails_since, ho_succ, pre, reports>>
  /\ TrackOpen(t, FALSE, None)

(* --------------- circuit_breaker::StellarClient::execute -------------- *)
\* circuit_breaker.rs:222-224: execute starts with breaker.before_request().
CallExecute(t) ==
  /\ pc[t] = "idle"
  /\ op' = [op EXCEPT ![t] = "execute"]
  /\ Enter(t, "before_request")
  /\ UNCHANGED <<breakerVars, cfgVars, now, oa, el, ret, f_res, f_calls,
                 cas_wins, ho_window, ho_live, streak, callHist>>
  /\ TrackOpen(t, TRUE, None)

\* circuit_breaker.rs:226-233: the wrapped call f(&horizon_url) runs and its
\* result r selects breaker.on_success() or breaker.on_failure().
ExCall(t, r) ==
  /\ pc[t] = "ex_call"
  /\ f_res' = [f_res EXCEPT ![t] = r]
  /\ f_calls' = [f_calls EXCEPT ![t] = f_calls[t] + 1]
  /\ Enter(t, IF r = "ok" THEN "on_success" ELSE "on_failure")
  /\ reports' = [reports EXCEPT ![t] = reports[t] + 1]
  /\ UNCHANGED <<breakerVars, cfgVars, now, op, oa, el, ret,
                 cas_wins, ho_window, ho_live, streak, admitted>>
  /\ TrackOpen(t, TRUE, None)

(* ------------------- the ledger calls of stellar.rs ------------------- *)
\* What one HTTP attempt can meet: a connection-level failure (timeout,
\* connection refused or reset), another transport failure, a status class, or
\* a 2xx answer whose body is not the expected JSON, lacks what is looked for
\* (no record with a matching memo / no "id" field), or has it.
Responses == {"conn_error", "transport_error", "5xx", "4xx", "3xx",
              "2xx_bad_json", "2xx_miss", "2xx_hit"}

LedgerCalls == {"verify_hash", "submit_hash", "revoke_hash"}

Ok(v) == [ok |-> TRUE, val |-> v]
Err(e) == [ok |-> FALSE, val |-> e]

\* The is_server_error branch also returning the unverified result
VerifyAttempt_ServerErrorAsResult(resp) ==
  CASE resp = "conn_error" -> Err("request_failed_connection")
    [] resp = "transport_error" -> Err("request_failed")
    [] resp = "5xx" -> Ok("unverified")
    [] resp = "4xx" -> Ok("unverified")
    [] resp = "3xx" -> Ok("unverified")
    [] resp = "2xx_bad_json" -> Err("parse_error")
    [] resp = "2xx_hit" -> Ok("verified")
    [] OTHER -> Ok("unverified")

\* stellar.rs:143-209, the operation verify_hash hands to retry_async.
VerifyAttempt(resp) ==
  CASE resp = "conn_error" -> Err("request_failed_connection")
    [] resp = "transport_error" -> Err("request_failed")
    [] resp = "5xx" -> Err("server_error")
    [] resp = "4xx" -> Ok("unverified")
    [] resp = "3xx" -> Ok("unverified")
    [] resp = "2xx_bad_json" -> Err("parse_error")
    [] resp = "2xx_hit" -> Ok("verified")
    [] OTHER -> Ok("unverified")

\* The is_client_error branch returning the server-error message
SubmitAttempt_ClientErrorAsServerError(resp) ==
  CASE resp = "conn_error" -> Err("request_failed_connection")
    [] resp = "transport_error" -> Err("request_failed")
    [] resp = "5xx" -> Err("server_error")
    [] resp = "4xx" -> Err("server_error")
    [] resp = "3xx" -> Err("status_error")
    [] resp = "2xx_bad_json" -> Err("parse_error")
    [] resp = "2xx_hit" -> Ok("transaction_id")
    [] OTHER -> Err("id_not_found")

\* stellar.rs:226-266, the operation submit_hash hands to retry_async.
SubmitAttempt(resp) ==
  CASE resp = "conn_error" -> Err("request_failed_connection")
    [] resp = "transport_error" -> Err("request_failed")
    [] resp = "5xx" -> Err("server_error")
    [] resp = "4xx" -> Err("client_error")
    [] resp = "3xx" -> Err("status_error")
    [] resp = "2xx_bad_json" -> Err("parse_error")
    [] resp = "2xx_hit" -> Ok("transaction_id")
    [] OTHER -> Err("id_not_found")

\* stellar.rs:723-772, the operation revoke_hash hands to retry_async.
RevokeAttempt(resp) ==
  CASE resp = "conn_error" -> Err("request_failed_connection")
    [] resp = "transport_error" -> Err("request_failed")
    [] resp = "5xx" -> Err("server_error")
    [] resp = "4xx" -> Err("client_error")
    [] resp = "3xx" -> Err("status_error")
    [] resp = "2xx_bad_json" -> Err("parse_error")
    [] resp = "2xx_hit" -> Ok("transaction_id")
    [] OTHER -> Err("id_not_found")

Operation(o, resp) ==
  CASE o = "verify_hash" -> VerifyAttempt(resp)
    [] o = "submit_hash" -> SubmitAttempt(resp)
    [] OTHER -> RevokeAttempt(resp)

\* Retryability classifier (specification 4.2): connection errors and 5xx are
\* retryable, 4xx and every other error are not.
IsRetryable(e) == e \in {"request_failed_connection", "server_error"}

\* RetryConfig delays (specification 3 and 4.2), in units of initial_delay.
InitialDelay == 1
BackoffMultiplier == 2
MaxDelay == 4

\* stellar.rs:138, 221, 716: the call enters retry_async with its operation.
\* No breaker method is called on this path: stellar::StellarClient holds no
\* CircuitBreaker (stellar.rs:15-19).
CallLedger(t, o) ==
  /\ pc[t] = "idle"
  /\ op' = [op EXCEPT ![t] = o]
  /\ pc' = [pc EXCEPT ![t] = "rt_attempt"]
  /\ attempt' = [attempt EXCEPT ![t] = 1]
  /\ delay' = [delay EXCEPT ![t] = InitialDelay]
  /\ UNCHANGED <<breakerVars, cfgVars, now, meth, st, oa, el, ret, f_res,
                 f_calls, openHist, casHist, seqHist, callHist,
                 max_attempts, outcome, lres, hist, extVars>>

\* One invocation of the operation: one HTTP request, answered by resp.
RtAttempt(t, resp) ==
  /\ pc[t] = "rt_attempt"
  /\ hist' = [hist EXCEPT ![t] = Append(hist[t], resp)]
  /\ outcome' = [outcome EXCEPT ![t] = Operation(op[t], resp)]
  /\ pc' = [pc EXCEPT ![t] = "rt_decide"]
  /\ UNCHANGED <<breakerVars, cfgVars, now, op, meth, st, oa, el, ret, f_res,
                 f_calls, openHist, casHist, seqHist, callHist,
                 max_attempts, attempt, delay, lres, extVars>>

\* retry_async (specification 4.2): return a success at once; return the
\* error when it is not retryable or the attempts are used up; otherwise
\* sleep and try again.
RtDecide(t) ==
  /\ pc[t] = "rt_decide"
  /\ IF outcome[t].ok \/ ~IsRetryable(outcome[t].val)
        \/ attempt[t] >= max_attempts
     THEN /\ lres' = [lres EXCEPT ![t] = outcome[t]]
          /\ pc' = [pc EXCEPT ![t] = "done"]
     ELSE /\ lres' = lres
          /\ pc' = [pc EXCEPT ![t] = "rt_sleep"]
  /\ UNCHANGED <<breakerVars, cfgVars, now, op, meth, st, oa, el, ret, f_res,
                 f_calls, openHist, casHist, seqHist, callHist,
                 max_attempts, attempt, delay, outcome, hist,
                 extVars>>

\* retry_async (specification 4.2): sleep delay * jitter, then
\* delay = min(delay * backoff_multiplier, max_delay) and the next attempt.
\* The jitter only scales the time slept, which no variable records.
RtSleep(t) ==
  /\ pc[t] = "rt_sleep"
  /\ delay' = [delay EXCEPT ![t] = Min(delay[t] * BackoffMultiplier, MaxDelay)]
  /\ attempt' = [attempt EXCEPT ![t] = attempt[t] + 1]
  /\ pc' = [pc EXCEPT ![t] = "rt_attempt"]
  /\ UNCHANGED <<breakerVars, cfgVars, now, op, meth, st, oa, el, ret, f_res,
                 f_calls, openHist, casHist, seqHist, callHist,
                 max_attempts, outcome, lres, hist, extVars>>

(* ----------------------------- cache.rs ------------------------------- *)
Backends == {"InMemory", "Redis"}

\* An entry: the stored string and, in Redis, the time SETEX lets it live to.
Entry(v, e) == [val |-> v, exp |-> e]
NoEntries == << >>
Live(s, k, n) == k \in DOMAIN s /\ (s[k].exp = None \/ n < s[k].exp)

\* Result<Option<String>> and Result<()>
CacheErr == [ok |-> FALSE, some |-> FALSE, val |-> NoText]
CacheNone == [ok |-> TRUE, some |-> FALSE, val |-> NoText]
CacheSome(v) == [ok |-> TRUE, some |-> TRUE, val |-> v]

\* cache.rs:21-26, 80-84, 120-123: get_raw; `fail' is a failure of the Redis
\* connection, the map of the in-process backend cannot fail.
GetRaw(s, k, n, fail) ==
  IF fail THEN CacheErr
  ELSE IF Live(s, k, n) THEN CacheSome(s[k].val) ELSE CacheNone

\* the in-process backend keeping the ttl it is given
Insert_WithExpiry(b, s, k, v, ttl, n) ==
  [x \in DOMAIN s \cup {k} |-> IF x = k THEN Entry(v, n + ttl) ELSE s[x]]

\* cache.rs:86-90 (SETEX key ttl value), 125-129 (store.insert, _ttl unused)
Insert(b, s, k, v, ttl, n) ==
  [x \in DOMAIN s \cup {k} |->
     IF x = k THEN Entry(v, IF b = "Redis" THEN n + ttl ELSE None) ELSE s[x]]

\* cache.rs:92-96 (DEL key), 131-135 (store.remove)
Remove(s, k) == [x \in DOMAIN s \ {k} |-> s[x]]

\* serde_json::to_string / from_str of the two types the handlers cache
ToJson(kind, fields) == [json |-> kind, fields |-> fields]
SerVerifyResponse(r) ==
  ToJson("VerifyResponse",
         <<r.verified, r.transaction_id, r.timestamp, r.cached>>)
DeVerifyResponse(j) ==
  IF j.json = "VerifyResponse"
  THEN [ok |-> TRUE,
        val |-> [verified |-> j.fields[1], transaction_id |-> j.fields[2],
                 timestamp |-> j.fields[3], cached |-> j.fields[4]]]
  ELSE [ok |-> FALSE, val |-> [verified |-> FALSE, transaction_id |-> NoneV,
                               timestamp |-> NoneV, cached |-> FALSE]]
SerHistory(h) == ToJson("Vec<TransferRecord>", h)
DeHistory(j) ==
  IF j.json = "Vec<TransferRecord>" THEN [ok |-> TRUE, val |-> j.fields]
  ELSE [ok |-> FALSE, val |-> << >>]

(* ------------------------- hash_validator.rs -------------------------- *)
Sha256HexLen == 64
Rep(c, n) == [i \in 1..n |-> c]

\* char::to_lowercase on the characters used here
Lower(c) == CASE c = "A" -> "a" [] c = "B" -> "b" [] c = "G" -> "g" [] OTHER -> c

\* str::trim: drop the white space at both ends
RECURSIVE Trim(_)
Trim(s) ==
  IF s = << >> THEN s
  ELSE IF Head(s) = " " THEN Trim(Tail(s))
  ELSE IF s[Len(s)] = " " THEN Trim(SubSeq(s, 1, Len(s) - 1))
  ELSE s

\* hash_validator.rs:16-18
Normalize(hash) == LET t == Trim(hash) IN [i \in 1..Len(t) |-> Lower(t[i])]

HexDigits == {"0", "1", "2", "3", "4", "5", "6", "7", "8", "9",
              "a", "b", "c", "d", "e", "f"}

(* ------------------------ the handlers of lib.rs ---------------------- *)
VerifyTtl == 3600
TenYearsSeconds == 60 * 60 * 24 * 365 * 10

\* lib.rs:45-50
VerifyResponse(r, c) ==
  [verified |-> r.verified, transaction_id |-> r.transaction_id,
   timestamp |-> r.timestamp, cached |-> c]
NoResponse == VerifyResponse(Unverified, FALSE)

\* What a handler answers: the HTTP status and the body; for an item of a
\* batch the status is that of the item (200 without error, 400 or 500 with).
Answer(status, body) == [status |-> status, body |-> body]
NoAnswer == Answer(0, NoResponse)
ErrorBody(e) == [error |-> e]

\* A task running a handler, or calling the cache directly: position,
\* operation, input, cache key, value read from the cache, ledger result made
\* into a response, local transfer history and record, answer; for the
\* properties: ledger calls made, whether the entry was there when looked up,
\* whether another request ran at the same time, the stored value before the
\* read or write, whether the write failed, the value found under the
\* normalized hash right after the write, the ttl given to a direct call,
\* cache reads and writes made, whether the ledger call failed.
IdleReq ==
  [pc |-> "idle", op |-> "none", input |-> NoText, key |-> NoText,
   got |-> CacheNone, resp |-> NoResponse, history |-> << >>,
   record |-> << >>, out |-> NoAnswer,
   calls |-> 0, present |-> FALSE, overlap |-> FALSE, before |-> << >>,
   werr |-> FALSE, after |-> ToJson("none", << >>), ttl |-> 0,
   reads |-> 0, writes |-> 0, lerr |-> FALSE]

\* No batch verify request is under way.
IdleBatch == [pc |-> "idle", hashes |-> << >>, out |-> NoAnswer]

\* cache.rs:112: RwLock::new: no guard is out.
FreeLock == [readers |-> {}, writers |-> {}]

InitCacheIdle ==
  /\ batch = IdleBatch
  /\ backend = "InMemory"
  /\ store = NoEntries
  /\ rwlock = FreeLock
  /\ req = [t \in Threads |-> IdleReq]
  /\ expect = NoEntries
  /\ nreq = 0

\* hash_validator.rs:28-54 through validate_sha256: the error, or "none"
ValidationError(hash) ==
  LET n == Normalize(hash)
  IN IF n = << >> THEN "EmptyHash"
     ELSE IF Len(n) # Sha256HexLen THEN "WrongLength"
     ELSE IF \E i \in 1..Len(n) : n[i] \notin HexDigits THEN "InvalidCharacter"
     ELSE "none"

\* lib.rs:91-97: BatchVerifyItem
BatchVerifyItem(hash, r, e) ==
  [hash |-> hash, verified |-> r.verified, transaction_id |-> r.transaction_id,
   timestamp |-> r.timestamp, error |-> e]

\* The body verify_document (lib.rs:280, 307) or verify_single_hash
\* (lib.rs:417-423, 457-463) answers with for the response r.
VerifyBody(o, hash, r) ==
  IF o = "verify_document" THEN r ELSE BatchVerifyItem(hash, r, "none")

\* The request r starts in task t; requests under way at the same time are
\* marked as overlapping.
Begin(t, r) ==
  LET busy(u) == req[u].pc \notin {"idle", "done"}
  IN /\ req' = [u \in Threads |->
                  IF u = t THEN [r EXCEPT !.overlap = \E v \in Threads \ {t} : busy(v)]
                  ELSE IF busy(u) THEN [req[u] EXCEPT !.overlap = TRUE]
                  ELSE req[u]]
     /\ nreq' = nreq + 1

\* A handler that looks up the cache before it validates the hash
VStart_NoValidation(t, o, raw) ==
  /\ req[t].pc = "idle"
  /\ nreq < MaxRequests
  /\ Begin(t, [IdleReq EXCEPT !.op = o, !.input = raw, !.key = Normalize(raw),
                              !.pc = "v_get"])
  /\ UNCHANGED <<coreVars, verifyVars, hookVars, pureVars, batch, backend, rwlock, store, expect>>

\* lib.rs:267-274 and 377-410 (the Err arm of the match on normalize cannot
\* be taken: normalize returns a String): normalize and validate the hash.
VStart(t, o, raw) ==
  /\ req[t].pc = "idle"
  /\ nreq < MaxRequests
  /\ LET h == Normalize(raw)
         e == ValidationError(h)
         r == [IdleReq EXCEPT !.op = o, !.input = raw, !.key = h]
     IN IF e = "none"
        THEN Begin(t, [r EXCEPT !.pc = "v_get"])
        ELSE Begin(t, [r EXCEPT !.pc = "done",
                                !.out = IF o = "verify_document"
                                        THEN Answer(400, ErrorBody(e))
                                        ELSE Answer(200, BatchVerifyItem(raw, Unverified, e))])
  /\ UNCHANGED <<coreVars, verifyVars, hookVars, pureVars, batch, backend, rwlock, store, expect>>

\* a handler that waits, before its cache read, for a task that is asking
\* the ledger about the same hash
VGet_SingleFlight(t, fail) ==
  /\ req[t].pc = "v_get"
  /\ \A u \in Threads \ {t} :
        ~(req[u].key = req[t].key /\ req[u].pc \in {"v_ledger", "v_set"})
  /\ fail => backend = "Redis"
  /\ LET r == req[t]
         raw == GetRaw(store, r.key, now, fail)
         de == DeVerifyResponse(raw.val)
         hit == raw.ok /\ raw.some /\ de.ok
         seen == [r EXCEPT !.got = raw, !.reads = @ + 1, !.present = Live(store, r.key, now),
                           !.before = IF Live(store, r.key, now)
                                      THEN DeVerifyResponse(store[r.key].val).val
                                      ELSE NoResponse]
     IN req' = [req EXCEPT ![t] =
                  IF hit
                  THEN [seen EXCEPT !.pc = "done",
                                    !.out = Answer(200, VerifyBody(r.op, r.input, de.val))]
                  ELSE [seen EXCEPT !.pc = "v_ledger"]]
  /\ UNCHANGED <<coreVars, verifyVars, hookVars, pureVars, batch, backend, rwlock, store, expect, nreq>>

\* lib.rs:277-281 and 413-424: `if let Ok(Some(cached)) = cache.get(..)'
\* answers from the cache; a miss, a failed read and a value that does not
\* deserialize all go on to the ledger.
VGet(t, fail) ==
  /\ req[t].pc = "v_get"
  /\ fail => backend = "Redis"
  /\ LET r == req[t]
         raw == GetRaw(store, r.key, now, fail)
         de == DeVerifyResponse(raw.val)
         hit == raw.ok /\ raw.some /\ de.ok
         seen == [r EXCEPT !.got = raw, !.reads = @ + 1, !.present = Live(store, r.key, now),
                           !.before = IF Live(store, r.key, now)
                                      THEN DeVerifyResponse(store[r.key].val).val
                                      ELSE NoResponse]
     IN req' = [req EXCEPT ![t] =
                  IF hit
                  THEN [seen EXCEPT !.pc = "done",
                                    !.out = Answer(200, VerifyBody(r.op, r.input, de.val))]
                  ELSE [seen EXCEPT !.pc = "v_ledger"]]
  /\ UNCHANGED <<coreVars, verifyVars, hookVars, pureVars, batch, backend, rwlock, store, expect, nreq>>

\* Results of stellar.verify_hash
LedgerResults ==
  { VErr("server_error"), VOk(Unverified),
    VOk([verified |-> TRUE, transaction_id |-> SomeV("tx123"), timestamp |-> SomeV(1704067200)]),
    VOk([verified |-> TRUE, transaction_id |-> SomeV("tx456"), timestamp |-> NoneV]) }

\* a handler that stores an unverified response when the ledger call failed
VLedger_CachesError(t, res) ==
  /\ req[t].pc = "v_ledger"
  /\ LET r == [req[t] EXCEPT !.calls = @ + 1, !.lerr = ~res.ok]
     IN /\ req' = [req EXCEPT ![t] =
                     IF res.ok
                     THEN [r EXCEPT !.pc = "v_set", !.resp = VerifyResponse(res.result, FALSE)]
                     ELSE [r EXCEPT !.pc = "done",
                                    !.out = IF r.op = "verify_document"
                                            THEN Answer(500, ErrorBody("internal"))
                                            ELSE Answer(200, BatchVerifyItem(r.input, Unverified,
                                                                             "stellar query failed"))]]
        /\ store' = IF res.ok THEN store
                    ELSE Insert(backend, store, r.key,
                                SerVerifyResponse(VerifyResponse(Unverified, FALSE)),
                                VerifyTtl, now)
  /\ UNCHANGED <<coreVars, verifyVars, hookVars, pureVars, batch, backend, rwlock, expect, nreq>>

\* lib.rs:286-300 and 429-443: the ledger is asked; an error ends the request.
VLedger(t, res) ==
  /\ req[t].pc = "v_ledger"
  /\ LET r == [req[t] EXCEPT !.calls = @ + 1, !.lerr = ~res.ok]
     IN req' = [req EXCEPT ![t] =
                  IF res.ok
                  THEN [r EXCEPT !.pc = "v_set", !.resp = VerifyResponse(res.result, FALSE)]
                  ELSE [r EXCEPT !.pc = "done",
                                 !.out = IF r.op = "verify_document"
                                         THEN Answer(500, ErrorBody("internal"))
                                         ELSE Answer(200, BatchVerifyItem(r.input, Unverified,
                                                                          "stellar query failed"))]]
  /\ UNCHANGED <<coreVars, verifyVars, hookVars, pureVars, batch, backend, rwlock, store, expect, nreq>>

\* a handler that caches only the responses with verified=true
VSet_OnlyVerified(t, fail) ==
  /\ req[t].pc = "v_set"
  /\ fail => backend = "Redis"
  /\ store' = IF fail \/ ~req[t].resp.verified THEN store
              ELSE Insert(backend, store, req[t].key,
                          SerVerifyResponse(req[t].resp), VerifyTtl, now)
  /\ req' = [req EXCEPT ![t] =
               [req[t] EXCEPT !.pc = "done", !.werr = fail, !.writes = @ + 1,
                              !.after = IF Live(store', Normalize(req[t].input), now)
                                        THEN store'[Normalize(req[t].input)].val
                                        ELSE @,
                              !.out = Answer(200, VerifyBody(req[t].op, req[t].input, req[t].resp))]]
  /\ UNCHANGED <<coreVars, verifyVars, hookVars, pureVars, batch, backend, rwlock, expect, nreq>>

\* the response stored under the hash as it was sent
VSet_RawKey(t, fail) ==
  /\ req[t].pc = "v_set"
  /\ fail => backend = "Redis"
  /\ store' = IF fail THEN store
              ELSE Insert(backend, store, req[t].input,
                          SerVerifyResponse(req[t].resp), VerifyTtl, now)
  /\ req' = [req EXCEPT ![t] =
               [req[t] EXCEPT !.pc = "done", !.werr = fail, !.writes = @ + 1,
                              !.after = IF Live(store', Normalize(req[t].input), now)
                                        THEN store'[Normalize(req[t].input)].val
                                        ELSE @,
                              !.out = Answer(200, VerifyBody(req[t].op, req[t].input, req[t].resp))]]
  /\ UNCHANGED <<coreVars, verifyVars, hookVars, pureVars, batch, backend, rwlock, expect, nreq>>

\* lib.rs:303-307 and 446-463: the response is stored under the normalized
\* hash; a failed write is logged and the answer is the same.
VSet(t, fail) ==
  /\ req[t].pc = "v_set"
  /\ fail => backend = "Redis"
  /\ store' = IF fail THEN store
              ELSE Insert(backend, store, req[t].key,
                          SerVerifyResponse(req[t].resp), VerifyTtl, now)
  /\ req' = [req EXCEPT ![t] =
               [req[t] EXCEPT !.pc = "done", !.werr = fail, !.writes = @ + 1,
                              !.after = IF Live(store', Normalize(req[t].input), now)
                                        THEN store'[Normalize(req[t].input)].val
                                        ELSE @,
                              !.out = Answer(200, VerifyBody(req[t].op, req[t].input, req[t].resp))]]
  /\ UNCHANGED <<coreVars, verifyVars, hookVars, pureVars, batch, backend, rwlock, expect, nreq>>

\* lib.rs:171-173: NaiveDate::parse_from_str(date, "%Y-%m-%d").is_ok(), for
\* a date given as <<year, month, day>>
IsValidIso8601Date(d) ==
  LET leap == (d[1] % 4 = 0 /\ d[1] % 100 # 0) \/ d[1] % 400 = 0
      days == CASE d[2] \in {4, 6, 9, 11} -> 30
                [] d[2] = 2 -> IF leap THEN 29 ELSE 28
                [] OTHER -> 31
  IN d[2] \in 1..12 /\ d[3] \in 1..days

\* lib.rs:160-168: SHA-256 of the four fields put end to end
ComputeTransferHash(q) ==
  <<"sha256", q.document_hash \o q.from_owner \o q.to_owner, q.transfer_date>>

\* lib.rs:177-189: "TRANSFER:" and the first 28 - 9 characters of the hash
BuildTransferMemo(h) == <<"TRANSFER:", h, 28 - 9>>

TransferKey(h) == <<"t", "r", "a", "n", "s", "f", "e", "r", ":">> \o h

\* lib.rs:192-220: the date is checked, the transfer anchored (the stub of
\* stellar.rs:123-129 always succeeds) and the record built.
TStart(t, q) ==
  /\ req[t].pc = "idle"
  /\ nreq < MaxRequests
  /\ LET h == ComputeTransferHash(q)
         r == [IdleReq EXCEPT !.op = "record_transfer", !.input = q.document_hash,
                              !.key = TransferKey(q.document_hash)]
     IN IF IsValidIso8601Date(q.transfer_date)
        THEN Begin(t, [r EXCEPT !.pc = "t_get",
                                !.record = [document_hash |-> q.document_hash,
                                            from_owner |-> q.from_owner,
                                            to_owner |-> q.to_owner,
                                            transfer_date |-> q.transfer_date,
                                            transfer_reference |-> q.transfer_reference,
                                            transfer_hash |-> h,
                                            memo |-> BuildTransferMemo(h),
                                            anchored_at |-> now]])
        ELSE Begin(t, [r EXCEPT !.pc = "done", !.out = Answer(400, ErrorBody("bad request"))])
  /\ UNCHANGED <<coreVars, verifyVars, hookVars, pureVars, batch, backend, rwlock, store, expect>>

\* lib.rs:222-230: the stored history is read; a failed read, or a value
\* that does not deserialize, ends the request with 500.
TGet(t, fail) ==
  /\ req[t].pc = "t_get"
  /\ fail => backend = "Redis"
  /\ LET r == req[t]
         raw == GetRaw(store, r.key, now, fail)
         de == DeHistory(raw.val)
         seen == [r EXCEPT !.got = raw, !.reads = @ + 1, !.present = Live(store, r.key, now)]
     IN req' = [req EXCEPT ![t] =
                  IF ~raw.ok \/ (raw.some /\ ~de.ok)
                  THEN [seen EXCEPT !.pc = "done",
                                    !.out = Answer(500, ErrorBody("internal"))]
                  ELSE [seen EXCEPT !.pc = "t_set",
                                    !.history = IF raw.some THEN de.val ELSE << >>]]
  /\ UNCHANGED <<coreVars, verifyVars, hookVars, pureVars, batch, backend, rwlock, store, expect, nreq>>

\* record_transfer writing back only the new record
TSet_OnlyNewRecord(t, fail) ==
  /\ req[t].pc = "t_set"
  /\ fail => backend = "Redis"
  /\ LET r == req[t]
         history == <<r.record>>
         stored == IF Live(store, r.key, now) THEN DeHistory(store[r.key].val).val
                   ELSE << >>
         w == [r EXCEPT !.pc = "done", !.history = history, !.before = stored,
                        !.werr = fail, !.writes = @ + 1]
     IN /\ store' = IF fail THEN store
                    ELSE Insert(backend, store, r.key, SerHistory(history),
                                TenYearsSeconds, now)
        /\ req' = [req EXCEPT ![t] =
                     IF fail
                     THEN [w EXCEPT !.out = Answer(500, ErrorBody("internal"))]
                     ELSE [w EXCEPT !.out = Answer(200, [transfer_hash |-> r.record.transfer_hash,
                                                         memo |-> r.record.memo])]]
  /\ UNCHANGED <<coreVars, verifyVars, hookVars, pureVars, batch, backend, rwlock, expect, nreq>>

\* lib.rs:232-242: the record is pushed and the list written back; a failed
\* write ends the request with 500.
TSet(t, fail) ==
  /\ req[t].pc = "t_set"
  /\ fail => backend = "Redis"
  /\ LET r == req[t]
         history == Append(r.history, r.record)
         stored == IF Live(store, r.key, now) THEN DeHistory(store[r.key].val).val
                   ELSE << >>
         w == [r EXCEPT !.pc = "done", !.history = history, !.before = stored,
                        !.werr = fail, !.writes = @ + 1]
     IN /\ store' = IF fail THEN store
                    ELSE Insert(backend, store, r.key, SerHistory(history),
                                TenYearsSeconds, now)
        /\ req' = [req EXCEPT ![t] =
                     IF fail
                     THEN [w EXCEPT !.out = Answer(500, ErrorBody("internal"))]
                     ELSE [w EXCEPT !.out = Answer(200, [transfer_hash |-> r.record.transfer_hash,
                                                         memo |-> r.record.memo])]]
  /\ UNCHANGED <<coreVars, verifyVars, hookVars, pureVars, batch, backend, rwlock, expect, nreq>>

\* The answer has been sent; the task is free again.
CAck(t) ==
  /\ req[t].pc = "done"
  /\ req' = [req EXCEPT ![t] = IdleReq]
  /\ UNCHANGED <<coreVars, verifyVars, hookVars, pureVars, batch, backend, rwlock, store, expect, nreq>>

(* ------------------- the in-process cache on its own ------------------- *)
\* Keys, values and ttls given to the cache.
CacheKeys == {"k1", "k2"}
CacheValues == {"v1", "v2"}
Ttls == {0, 1}

\* What the calls made so far should leave under key k: the value of the
\* last set of k that no delete of k has followed.
Expected(k) == IF k \in DOMAIN expect THEN CacheSome(expect[k].val) ELSE CacheNone

\* A task calls get_raw, set_raw or delete and reaches the await of the
\* lock (cache.rs:121 self.store.read().await, 126 and 132
\* self.store.write().await).
MemCall(t, o, k, v, ttl) ==
  /\ req[t].pc = "idle"
  /\ nreq < MaxCacheCalls
  /\ Begin(t, [IdleReq EXCEPT !.pc = "m_lock", !.op = o, !.key = k,
                              !.input = v, !.ttl = ttl])
  /\ UNCHANGED <<coreVars, verifyVars, hookVars, pureVars, batch, backend, rwlock, store, expect>>

\* Tasks holding a guard of the lock.
Holders == rwlock.readers \cup rwlock.writers

\* cache.rs:121, 126, 132: read().await resolves while no write guard is
\* out, write().await while no guard at all is out.
MemAcquire(t) ==
  /\ req[t].pc = "m_lock"
  /\ IF req[t].op = "get_raw"
     THEN /\ rwlock.writers = {}
          /\ rwlock' = [rwlock EXCEPT !.readers = @ \cup {t}]
     ELSE /\ Holders = {}
          /\ rwlock' = [rwlock EXCEPT !.writers = @ \cup {t}]
  /\ req' = [req EXCEPT ![t].pc = "m_held"]
  /\ UNCHANGED <<coreVars, verifyVars, hookVars, pureVars, batch, backend,
                 store, expect, nreq>>

\* The guard of task t is dropped.
Release(t) == [readers |-> rwlock.readers \ {t}, writers |-> rwlock.writers \ {t}]

\* get_raw returning with its read guard still out
MemGet_GuardKept(t) ==
  /\ req[t].pc = "m_held" /\ req[t].op = "get_raw"
  /\ LET k == req[t].key
     IN req' = [req EXCEPT ![t].pc = "done",
                           ![t].got = GetRaw(store, k, now, FALSE),
                           ![t].before =
                              [exp |-> Expected(k),
                               late |-> /\ k \in DOMAIN expect
                                        /\ expect[k].at + expect[k].ttl < now]]
  /\ UNCHANGED <<coreVars, verifyVars, hookVars, pureVars, batch, backend,
                 rwlock, store, expect, nreq>>

\* cache.rs:120-123: get_raw: the look-up under the read guard, which is
\* dropped as the function returns
MemGet(t) ==
  /\ req[t].pc = "m_held" /\ req[t].op = "get_raw"
  /\ rwlock' = Release(t)
  /\ LET k == req[t].key
     IN req' = [req EXCEPT ![t].pc = "done",
                           ![t].got = GetRaw(store, k, now, FALSE),
                           ![t].before =
                              [exp |-> Expected(k),
                               late |-> /\ k \in DOMAIN expect
                                        /\ expect[k].at + expect[k].ttl < now]]
  /\ UNCHANGED <<coreVars, verifyVars, hookVars, pureVars, batch, backend, store, expect, nreq>>

\* cache.rs:125-129: set_raw: the insert under the write guard, which is
\* dropped as the function returns
MemSet(t) ==
  /\ req[t].pc = "m_held" /\ req[t].op = "set_raw"
  /\ rwlock' = Release(t)
  /\ LET r == req[t]
     IN /\ store' = Insert(backend, store, r.key, r.input, r.ttl, now)
        /\ expect' = [x \in DOMAIN expect \cup {r.key} |->
                        IF x = r.key THEN [val |-> r.input, at |-> now, ttl |-> r.ttl]
                        ELSE expect[x]]
  /\ req' = [req EXCEPT ![t].pc = "done"]
  /\ UNCHANGED <<coreVars, verifyVars, hookVars, pureVars, batch, backend, nreq>>

\* cache.rs:131-135: delete: the remove under the write guard, which is
\* dropped as the function returns
MemDelete(t) ==
  /\ req[t].pc = "m_held" /\ req[t].op = "delete"
  /\ rwlock' = Release(t)
  /\ store' = Remove(store, req[t].key)
  /\ expect' = [x \in DOMAIN expect \ {req[t].key} |-> expect[x]]
  /\ req' = [req EXCEPT ![t].pc = "done"]
  /\ UNCHANGED <<coreVars, verifyVars, hookVars, pureVars, batch, backend, nreq>>

(* ----------------------- verify_hash in detail ----------------------- *)
\* Hashes asked for, memos and creation dates met in records.
Hashes == { <<"a", "b">>, <<"b">> }
Memos == { NoMemo, SomeMemo(<<"a">>), SomeMemo(<<"b", "a">>),
           SomeMemo(<<"a", "b">>), SomeMemo(<<"c", "a", "b">>) }
CreatedAts == { "2024-01-01T00:00:00Z", "not-a-date" }

\* chrono::DateTime::parse_from_rfc3339(..).map(|dt| dt.timestamp()).ok()
ParseTimestamp(c) ==
  CASE c = "2024-01-01T00:00:00Z" -> SomeV(1704067200)
    [] c = "2023-01-01T00:00:00Z" -> SomeV(1672531200)
    [] OTHER -> NoneV

\* Pages of at most MaxRecords transactions; the ledger gives every
\* transaction its own id, here its rank in the ledger's answer.
Transaction(i, m, c) == [id |-> i, memo |-> m, created_at |-> c]
PagesOfLen(n) ==
  { [i \in 1..n |-> Transaction(i, f[i][1], f[i][2])] :
      f \in [1..n -> Memos \X CreatedAts] }
Pages == UNION { PagesOfLen(n) : n \in 0..MaxRecords }

\* the loop keeping the latest match instead of returning at the first
RECURSIVE SearchRecords_KeepLast(_, _, _)
SearchRecords_KeepLast(records, h, i) ==
  IF i > Len(records) THEN Unverified
  ELSE LET tx == records[i]
           rest == SearchRecords_KeepLast(records, h, i + 1)
       IN IF tx.memo.some /\ Contains(tx.memo.text, h) /\ ~rest.verified
          THEN [verified |-> TRUE, transaction_id |-> SomeV(tx.id),
                timestamp |-> ParseTimestamp(tx.created_at)]
          ELSE rest

\* stellar.rs:185-208: the search through the records from the i-th on.
RECURSIVE SearchRecords(_, _, _)
SearchRecords(records, h, i) ==
  IF i > Len(records) THEN Unverified
  ELSE LET tx == records[i]
       IN IF tx.memo.some /\ Contains(tx.memo.text, h)
          THEN [verified |-> TRUE, transaction_id |-> SomeV(tx.id),
                timestamp |-> ParseTimestamp(tx.created_at)]
          ELSE SearchRecords(records, h, i + 1)

\* stellar.rs:143-209: the closure of verify_hash, with the body it parsed.
VerifyClosure(resp, records, h) ==
  CASE resp = "conn_error" -> VErr("request_failed_connection")
    [] resp = "transport_error" -> VErr("request_failed")
    [] resp = "5xx" -> VErr("server_error")
    [] resp = "4xx" -> VOk(Unverified)
    [] resp = "3xx" -> VOk(Unverified)
    [] resp = "2xx_bad_json" -> VErr("parse_error")
    [] OTHER -> VOk(SearchRecords(records, h, 1))

HasMatch(records, h) ==
  \E i \in 1..Len(records) :
    records[i].memo.some /\ Contains(records[i].memo.text, h)

\* What the ledger can answer with: a page of records only in a 2xx answer
\* with a well-formed body, which is a hit exactly when some memo matches.
Answers(h) ==
  { <<resp, records>> \in Responses \X Pages :
      IF resp \in {"2xx_hit", "2xx_miss"}
      THEN (resp = "2xx_hit") <=> HasMatch(records, h)
      ELSE records = << >> }

\* One invocation of the closure of verify_hash: one GET, answered by resp
\* and, for a well-formed 2xx body, the records of the page.
VfAttempt(t, resp, records) ==
  /\ pc[t] = "rt_attempt"
  /\ op[t] = "verify_hash"
  /\ hist' = [hist EXCEPT ![t] = Append(hist[t], resp)]
  /\ outcome' = [outcome EXCEPT ![t] = Operation(op[t], resp)]
  /\ page' = records
  /\ vres' = VerifyClosure(resp, records, doc_hash)
  /\ pc' = [pc EXCEPT ![t] = "rt_decide"]
  /\ UNCHANGED <<breakerVars, cfgVars, now, op, meth, st, oa, el, ret, f_res,
                 f_calls, openHist, casHist, seqHist, callHist,
                 max_attempts, attempt, delay, lres, doc_hash, cacheVars,
                 hookVars, pureVars>>

(* ------------------------ webhook_dispatcher.rs ------------------------ *)
\* webhook_dispatcher.rs:146: sleep(Duration::from_secs(1))
RetryDelaySecs == 1

(* -------------------- sign and verify_signature ----------------------- *)
\* Secrets and bodies are byte strings; 0 is the NUL byte, which a Rust str
\* may hold.
Sha256BlockLen == 64
SeqsUpTo(S, n) == UNION { [1..k -> S] : k \in 0..n }
Secrets == SeqsUpTo({0, 107}, MaxSecretLen) \cup {Rep(107, Sha256BlockLen + 1)}
Bodies == SeqsUpTo({97, 98}, MaxBodyLen)

\* HmacSha256::new_from_slice (webhook_dispatcher.rs:216-217, 230-231): a
\* key of at most one block is padded with zero bytes to the block length,
\* a longer key is replaced by its SHA-256 digest. The digest is not
\* computed: it stands for itself under the name of what was hashed, so two
\* digests are equal exactly when their inputs are.
HmacKey(secret) ==
  IF Len(secret) > Sha256BlockLen
  THEN [hashed |-> TRUE, bytes |-> secret]
  ELSE [hashed |-> FALSE, bytes |-> secret \o Rep(0, Sha256BlockLen - Len(secret))]

\* mac.update(body); mac.finalize(): the tag is a function of the key block
\* and the message, taken as free of collisions.
Hmac(secret, body) == [key |-> HmacKey(secret), msg |-> body]

\* A signature string: what precedes the digits, whether the digits are
\* hexadecimal, and the bytes they encode (hex::encode / hex::decode).
SigString(prefix, hex, tag) == [prefix |-> prefix, hex |-> hex, tag |-> tag]

\* webhook_dispatcher.rs:215-221: sign
Sign(secret, body) == SigString("sha256=", TRUE, Hmac(secret, body))

\* verify_signature decoding the signature with its prefix left on
VerifySignature_PrefixKept(secret, body, signature) ==
  /\ signature.prefix = ""
  /\ signature.hex
  /\ signature.tag = Hmac(secret, body)

\* webhook_dispatcher.rs:224-235: verify_signature; strip_prefix leaves a
\* string without the prefix as it is, hex::decode fails on anything that is
\* not hexadecimal digits, verify_slice compares the whole tag.
VerifySignature(secret, body, signature) ==
  /\ signature.prefix \in {"sha256=", ""}
  /\ signature.hex
  /\ signature.tag = Hmac(secret, body)

\* Targets a configuration can name, and the configurations (a url may be
\* named twice).
Urls == {"https://a.example/hook", "https://b.example/hook"}
Configs == UNION { [1..n -> Urls] : n \in 0..MaxUrls }

\* config.secret, and what a caller hands to dispatch or fire: the event
\* type and the payload, a JSON value written as its text.
HookSecrets == { s \in Secrets : Len(s) = 1 }
Events == {"hash_verified", "transfer_recorded"}
Payloads == {"null", "{}"}

\* webhook_dispatcher.rs:100-104: json!({"event": .., "data": ..}) and
\* serde_json::to_vec: the text of the object, its members in the order of
\* serde_json's map (sorted by key), the event type between quotes.
ToVec(event_type, payload) ==
  <<"{", "\"data\":", payload, ",", "\"event\":", "\"", event_type, "\"", "}">>

\* No signature computed yet.
NoSignature == SigString("", FALSE, Hmac(<< >>, << >>))

\* webhook_dispatcher.rs:178-183: the request attempt sends.
Request(url, body, signature) ==
  [url |-> url, content_type |-> "application/json",
   x_smalda_signature |-> signature, body |-> body]

\* What one POST can meet: an answer with a status, or an error of send()
\* (connection refused, timeout of the client, ...).
AttemptOutcomes == { [kind |-> "http", status |-> 200],
                     [kind |-> "http", status |-> 503],
                     [kind |-> "transport", status |-> 0] }

\* StatusCode::is_success
IsSuccess(status) == 200 <= status /\ status <= 299

\* webhook_dispatcher.rs:46-52 DeliveryResult and 177-210 attempt: the
\* result of one POST to url that met o.
DeliveryResult(url, success, status_code, error) ==
  [url |-> url, success |-> success, status_code |-> status_code, error |-> error]
Attempt_TransportWithoutError(url, o) ==
  IF o.kind = "http"
  THEN DeliveryResult(url, IsSuccess(o.status), SomeV(o.status),
                      IF IsSuccess(o.status) THEN NoMemo
                      ELSE SomeMemo(<<"HTTP ", o.status>>))
  ELSE DeliveryResult(url, FALSE, NoneV, NoMemo)
Attempt(url, o) ==
  IF o.kind = "http"
  THEN DeliveryResult(url, IsSuccess(o.status), SomeV(o.status),
                      IF IsSuccess(o.status) THEN NoMemo
                      ELSE SomeMemo(<<"HTTP ", o.status>>))
  ELSE DeliveryResult(url, FALSE, NoneV, SomeMemo(<<"error sending request">>))

\* A delivery task: where it is in post_with_retry, its clones of the body
\* and of the signature, the requests it sent and what they met so far, the
\* seconds it slept, the value it returned and how many tasks had finished
\* before it.
NoTask ==
  [pc |-> "none", body |-> << >>, signature |-> NoSignature,
   sent |-> << >>, posts |-> << >>, slept |-> 0,
   result |-> DeliveryResult("", FALSE, NoneV, NoMemo), rank |-> 0]
Finished(i) == task[i].pc = "finished"
Finish(i, o) ==
  [task[i] EXCEPT !.pc = "finished", !.posts = Append(@, o),
                  !.sent = Append(@, Request(urls[i], task[i].body,
                                             task[i].signature)),
                  !.result = Attempt(urls[i], o),
                  !.rank = 1 + Cardinality({j \in DOMAIN task : Finished(j)})]

IdleDispatch ==
  [pc |-> "idle", mode |-> "none", event |-> "", data |-> "",
   body_bytes |-> << >>, signature |-> NoSignature,
   serialized |-> 0, signed |-> 0, next |-> 1, results |-> << >>]
IdleCaller == [pc |-> "idle", mode |-> "none", has |-> FALSE, got |-> << >>]

InitHookIdle ==
  /\ urls = << >>
  /\ config_secret = << >>
  /\ task = << >>
  /\ dsp = IdleDispatch
  /\ caller = IdleCaller
  /\ wlog = << >>

\* webhook_dispatcher.rs:99: a caller awaits dispatch(..)
CallDispatch(event_type, payload) ==
  /\ caller.pc = "idle"
  /\ caller' = [caller EXCEPT !.pc = "waiting", !.mode = "dispatch"]
  /\ dsp' = [dsp EXCEPT !.pc = "start", !.mode = "dispatch",
                        !.event = event_type, !.data = payload]
  /\ UNCHANGED <<coreVars, verifyVars, cacheVars, pureVars, urls,
                 config_secret, task, wlog>>

\* fire that returns only when the dispatch it started has ended
Fire_AwaitingDispatch(event_type, payload) ==
  /\ caller.pc = "idle"
  /\ caller' = [caller EXCEPT !.pc = "waiting", !.mode = "fire"]
  /\ dsp' = [dsp EXCEPT !.pc = "start", !.mode = "fire",
                        !.event = event_type, !.data = payload]
  /\ UNCHANGED <<coreVars, verifyVars, cacheVars, pureVars, urls,
                 config_secret, task, wlog>>

\* webhook_dispatcher.rs:75-96: fire spawns a task that will run dispatch
\* and returns () to its caller.
Fire(event_type, payload) ==
  /\ caller.pc = "idle"
  /\ caller' = [caller EXCEPT !.pc = "returned", !.mode = "fire"]
  /\ dsp' = [dsp EXCEPT !.pc = "start", !.mode = "fire",
                        !.event = event_type, !.data = payload]
  /\ UNCHANGED <<coreVars, verifyVars, cacheVars, pureVars, urls,
                 config_secret, task, wlog>>

\* dispatch signing the payload alone instead of the serialized body
DSpawn_SignsPayloadOnly ==
  LET body_bytes == ToVec(dsp.event, dsp.data)
      signature == Sign(config_secret, <<dsp.data>>)
  IN
  /\ dsp.pc = "start"
  /\ task' = [i \in DOMAIN urls |->
                [NoTask EXCEPT !.pc = "first", !.body = body_bytes,
                               !.signature = signature]]
  /\ dsp' = [dsp EXCEPT !.pc = "await", !.body_bytes = body_bytes,
                        !.signature = signature,
                        !.serialized = @ + 1, !.signed = @ + 1]
  /\ UNCHANGED <<coreVars, verifyVars, cacheVars, pureVars, urls,
                 config_secret, caller, wlog>>

\* webhook_dispatcher.rs:100-119: the body is serialized once and signed
\* once, and one task is spawned per url of the configuration, in its
\* order, with a clone of the body and of the signature.
DSpawn ==
  LET body_bytes == ToVec(dsp.event, dsp.data)
      signature == Sign(config_secret, body_bytes)
  IN
  /\ dsp.pc = "start"
  /\ task' = [i \in DOMAIN urls |->
                [NoTask EXCEPT !.pc = "first", !.body = body_bytes,
                               !.signature = signature]]
  /\ dsp' = [dsp EXCEPT !.pc = "await", !.body_bytes = body_bytes,
                        !.signature = signature,
                        !.serialized = @ + 1, !.signed = @ + 1]
  /\ UNCHANGED <<coreVars, verifyVars, cacheVars, pureVars, urls,
                 config_secret, caller, wlog>>

\* post_with_retry returning the result of a failed first attempt
PwrFirst_NoRetry(i, o) ==
  /\ task[i].pc = "first"
  /\ task' = [task EXCEPT ![i] = Finish(i, o)]
  /\ UNCHANGED <<coreVars, verifyVars, cacheVars, pureVars, urls,
                 config_secret, dsp, caller, wlog>>

\* webhook_dispatcher.rs:143-144: the first attempt of post_with_retry; a
\* successful result is returned, any other is dropped.
PwrFirst(i, o) ==
  /\ task[i].pc = "first"
  /\ task' = [task EXCEPT ![i] =
                IF Attempt(urls[i], o).success THEN Finish(i, o)
                ELSE [@ EXCEPT !.pc = "sleep", !.posts = Append(@, o),
                               !.sent = Append(@, Request(urls[i], task[i].body,
                                                   task[i].signature))]]
  /\ UNCHANGED <<coreVars, verifyVars, cacheVars, pureVars, urls,
                 config_secret, dsp, caller, wlog>>

\* webhook_dispatcher.rs:145-147: the warning and the sleep of one second
PwrSleep(i) ==
  /\ task[i].pc = "sleep"
  /\ task' = [task EXCEPT ![i].pc = "retry", ![i].slept = @ + RetryDelaySecs]
  /\ UNCHANGED <<coreVars, verifyVars, cacheVars, pureVars, urls,
                 config_secret, dsp, caller, wlog>>

\* webhook_dispatcher.rs:148-154: the second attempt, whose result is
\* returned whatever it is.
PwrRetry(i, o) ==
  /\ task[i].pc = "retry"
  /\ task' = [task EXCEPT ![i] = Finish(i, o)]
  /\ UNCHANGED <<coreVars, verifyVars, cacheVars, pureVars, urls,
                 config_secret, dsp, caller, wlog>>

\* dispatch leaving out the results that are failures
DAwait_DropFailures ==
  /\ dsp.pc = "await"
  /\ dsp.next <= Len(urls)
  /\ Finished(dsp.next)
  /\ dsp' = [dsp EXCEPT !.next = @ + 1,
                        !.results = IF task[dsp.next].result.success
                                    THEN Append(@, task[dsp.next].result) ELSE @]
  /\ UNCHANGED <<coreVars, verifyVars, cacheVars, pureVars, urls,
                 config_secret, task, caller, wlog>>

\* webhook_dispatcher.rs:121-129: handle.await on the next handle, in the
\* order of the urls. The Err(JoinError) arm needs a task that panicked or
\* was aborted: post_with_retry and attempt have no panicking path and no
\* handle is aborted, so the arm is never taken.
DAwait ==
  /\ dsp.pc = "await"
  /\ dsp.next <= Len(urls)
  /\ Finished(dsp.next)
  /\ dsp' = [dsp EXCEPT !.next = @ + 1,
                        !.results = Append(@, task[dsp.next].result)]
  /\ UNCHANGED <<coreVars, verifyVars, cacheVars, pureVars, urls,
                 config_secret, task, caller, wlog>>

\* dispatch returning what it has without awaiting the remaining handles
DReturn_WithoutJoin ==
  /\ dsp.pc = "await"
  /\ dsp.mode = "dispatch"
  /\ dsp' = [dsp EXCEPT !.pc = "done"]
  /\ caller' = [caller EXCEPT !.pc = "returned", !.has = TRUE, !.got = dsp.results]
  /\ UNCHANGED <<coreVars, verifyVars, cacheVars, pureVars, urls,
                 config_secret, task, wlog>>

\* webhook_dispatcher.rs:130-131: every handle has been awaited; dispatch
\* returns its results to the caller awaiting it.
DReturn ==
  /\ dsp.pc = "await"
  /\ dsp.next > Len(urls)
  /\ dsp.mode = "dispatch"
  /\ dsp' = [dsp EXCEPT !.pc = "done"]
  /\ caller' = [caller EXCEPT !.pc = "returned", !.has = TRUE, !.got = dsp.results]
  /\ UNCHANGED <<coreVars, verifyVars, cacheVars, pureVars, urls,
                 config_secret, task, wlog>>

\* webhook_dispatcher.rs:79-93: in the task spawned by fire, dispatch
\* returns and each result is logged, with info! or warn!.
FireLog ==
  /\ dsp.pc = "await"
  /\ dsp.next > Len(urls)
  /\ dsp.mode = "fire"
  /\ dsp' = [dsp EXCEPT !.pc = "done"]
  /\ wlog' = [i \in DOMAIN dsp.results |->
                [level |-> IF dsp.results[i].success THEN "info" ELSE "warn",
                 url |-> dsp.results[i].url]]
  /\ UNCHANGED <<coreVars, verifyVars, cacheVars, pureVars, urls,
                 config_secret, task, caller>>
\* No pure function is being called and no history is being fetched.
InitPureIdle ==
  /\ calc = [fn |-> "none"]
  /\ hh = [pc |-> "idle"]

InitExtIdle == InitVerifyIdle /\ InitCacheIdle /\ InitHookIdle /\ InitPureIdle

Init ==
  /\ InitBreaker
  /\ InitLocals
  /\ InitHist
  /\ fails_since = None
  /\ ho_succ = None
  /\ streak = None
  /\ InitLedgerLocals
  /\ max_attempts = 1
  /\ InitExtIdle

InitSeq ==
  /\ InitBreaker
  /\ InitLocals
  /\ InitHist
  /\ fails_since = 0
  /\ ho_succ = 0
  /\ streak = 0
  /\ InitLedgerLocals
  /\ max_attempts = 1
  /\ InitExtIdle

(* --------------------------- specifications --------------------------- *)
Methods == {"before_request", "on_success", "on_failure"}

BreakerStep(t) ==
  \/ BrLoad(t) \/ BrOpenedAt(t) \/ BrNow(t) \/ BrCas(t) \/ BrReset(t)
  \/ OsLoad(t) \/ OsReset(t) \/ OsInc(t)
  \/ OsCloseState(t) \/ OsCloseFc(t) \/ OsCloseSc(t)
  \/ OfLoad(t) \/ OfInc(t)
  \/ TripOpenedAt(t) \/ TripState(t) \/ TripFc(t) \/ TripSc(t)
  \/ Ack(t)

\* Any number of callers of one shared breaker, interleaved at every atomic
\* operation.
Next ==
  \/ Tick
  \/ \E t \in Threads :
       \/ \E m \in Methods : Call(t, m)
       \/ BreakerStep(t)

Spec == Init /\ [][Next]_vars

\* One caller at a time: a call runs to its end before the next one starts.
Alone(t) == \A u \in Threads \ {t} : pc[u] = "idle"

NextSeq ==
  \/ Tick
  \/ \E t \in Threads :
       \/ \E m \in Methods : Alone(t) /\ Call(t, m)
       \/ Alone(t) /\ CallExecute(t)
       \/ \E r \in {"ok", "err"} : ExCall(t, r)
       \/ BreakerStep(t)

SpecSeq == InitSeq /\ [][NextSeq]_vars

\* One caller at a time making ledger calls: through execute with the breaker,
\* or through the client of stellar.rs with the retry runner.
InitLedger ==
  /\ InitBreaker
  /\ InitLocals
  /\ InitHist
  /\ fails_since = None
  /\ ho_succ = None
  /\ streak = None
  /\ InitLedgerLocals
  /\ max_attempts \in 1..MaxAttempts
  /\ InitExtIdle

NextLedger ==
  \/ Tick
  \/ \E t \in Threads :
       \/ Alone(t) /\ CallExecute(t)
       \/ \E r \in {"ok", "err"} : ExCall(t, r)
       \/ BreakerStep(t)
       \/ \E o \in LedgerCalls : Alone(t) /\ CallLedger(t, o)
       \/ \E resp \in Responses : RtAttempt(t, resp)
       \/ RtDecide(t)
       \/ RtSleep(t)

SpecLedger == InitLedger /\ [][NextLedger]_vars

\* verify_hash of stellar.rs, one call, with the pages the ledger answers.
InitCoreIdle ==
  /\ InitBreaker
  /\ failure_threshold = 1
  /\ success_threshold = 1
  /\ timeout_secs = 1
  /\ InitLocals
  /\ InitHist
  /\ fails_since = None
  /\ ho_succ = None
  /\ streak = None
  /\ InitLedgerLocals

InitVerify ==
  /\ InitCoreIdle
  /\ max_attempts \in 1..MaxAttempts
  /\ doc_hash \in Hashes
  /\ page = << >>
  /\ vres = NoVRes
  /\ InitCacheIdle
  /\ InitHookIdle
  /\ InitPureIdle

NextVerify ==
  \E t \in Threads :
    \/ Alone(t) /\ CallLedger(t, "verify_hash")
    \/ \E a \in Answers(doc_hash) : VfAttempt(t, a[1], a[2])
    \/ RtDecide(t)
    \/ RtSleep(t)

SpecVerify == InitVerify /\ [][NextVerify]_vars

\* The handlers of lib.rs run by concurrent tasks over one cache, which is
\* the in-process map or a Redis whose commands can fail.
RawHashes == { Rep("a", Sha256HexLen), <<" ">> \o Rep("A", Sha256HexLen),
               Rep("g", Sha256HexLen) }
TransferRequests ==
  { [document_hash |-> Rep("a", Sha256HexLen), from_owner |-> <<"alice">>,
     to_owner |-> <<"bob">>, transfer_date |-> d, transfer_reference |-> ref] :
      d \in { <<2024, 2, 29>>, <<2023, 2, 29>> }, ref \in {"ref-1", "ref-2"} }

InitOrch ==
  /\ InitCoreIdle
  /\ batch = IdleBatch
  /\ max_attempts = 1
  /\ InitVerifyIdle
  /\ backend \in Backends
  /\ store = NoEntries
  /\ rwlock = FreeLock
  /\ req = [t \in Threads |-> IdleReq]
  /\ expect = NoEntries
  /\ nreq = 0
  /\ InitHookIdle
  /\ InitPureIdle

NextOrch ==
  \E t \in Threads :
    \/ \E o \in {"verify_document", "verify_single_hash"}, raw \in RawHashes :
         VStart(t, o, raw)
    \/ \E fail \in BOOLEAN : VGet(t, fail)
    \/ \E res \in LedgerResults : VLedger(t, res)
    \/ \E fail \in BOOLEAN : VSet(t, fail)
    \/ \E q \in TransferRequests : TStart(t, q)
    \/ \E fail \in BOOLEAN : TGet(t, fail)
    \/ \E fail \in BOOLEAN : TSet(t, fail)
    \/ CAck(t)

SpecOrch == InitOrch /\ [][NextOrch]_vars

\* The in-process cache called by concurrent tasks while time passes.
InitMem ==
  /\ InitCoreIdle
  /\ max_attempts = 1
  /\ InitExtIdle

NextMem ==
  \/ Tick
  \/ \E t \in Threads :
       \/ \E k \in CacheKeys : MemCall(t, "get_raw", k, NoText, 0)
       \/ \E k \in CacheKeys, v \in CacheValues, ttl \in Ttls :
            MemCall(t, "set_raw", k, v, ttl)
       \/ \E k \in CacheKeys : MemCall(t, "delete", k, NoText, 0)
       \/ MemAcquire(t)
       \/ MemGet(t)
       \/ MemSet(t)
       \/ MemDelete(t)
       \/ CAck(t)

SpecMem == InitMem /\ [][NextMem]_vars

\* The runtime polls every task that can go on: a task whose guard is
\* granted takes it, and the synchronous code between the await of the lock
\* and the return runs to its end.
MemStep(t) == MemAcquire(t) \/ MemGet(t) \/ MemSet(t) \/ MemDelete(t)
SpecMemLive == SpecMem /\ \A t \in Threads : WF_vars(MemStep(t))

\* One call of dispatch or of fire on a configuration of up to MaxUrls urls.
InitHook ==
  /\ InitCoreIdle
  /\ max_attempts = 1
  /\ InitVerifyIdle
  /\ InitCacheIdle
  /\ urls \in Configs
  /\ config_secret \in HookSecrets
  /\ task = [i \in DOMAIN urls |-> NoTask]
  /\ dsp = IdleDispatch
  /\ caller = IdleCaller
  /\ wlog = << >>
  /\ InitPureIdle

NextHook ==
  \/ \E event_type \in Events, payload \in Payloads :
       CallDispatch(event_type, payload)
  \/ \E event_type \in Events, payload \in Payloads :
       Fire(event_type, payload)
  \/ DSpawn
  \/ \E i \in DOMAIN task, o \in AttemptOutcomes : PwrFirst(i, o)
  \/ \E i \in DOMAIN task : PwrSleep(i)
  \/ \E i \in DOMAIN task, o \in AttemptOutcomes : PwrRetry(i, o)
  \/ DAwait
  \/ DReturn
  \/ FireLog

SpecHook == InitHook /\ [][NextHook]_vars

\* The runtime runs every spawned task, the timer of sleep fires and every
\* POST ends (the client has a timeout, webhook_dispatcher.rs:63-64).
SpecHookLive == SpecHook /\ WF_vars(NextHook)

(* ============================ properties ============================== *)
Done(t, m) == pc[t] = "done" /\ meth[t] = m

\* C1 (one caller at a time): an on_failure() made on a Closed breaker leaves
\* it Open exactly when it is the failure_threshold-th on_failure() since the
\* last on_success() or since construction, and leaves it Closed with a smaller
\* count otherwise; an on_success() on a Closed breaker leaves it Closed and
\* restarts the count (the failure counter is 0 again).
C1_TripsExactlyAtThreshold ==
  \A t \in Threads :
    /\ (Done(t, "on_failure") /\ pre[t].state = STATE_CLOSED) =>
          /\ failure_count = (IF state = STATE_OPEN THEN 0 ELSE fails_since)
          /\ IF fails_since = failure_threshold
             THEN state = STATE_OPEN
             ELSE state = STATE_CLOSED /\ fails_since < failure_threshold
    /\ (Done(t, "on_success") /\ pre[t].state = STATE_CLOSED) =>
          state = STATE_CLOSED /\ failure_count = 0 /\ fails_since = 0

\* C1 witness: the failure_threshold-th failure has just opened a breaker
\* whose threshold is above 1.
C1_Witness ==
  \E t \in Threads :
    /\ Done(t, "on_failure") /\ pre[t].state = STATE_CLOSED
    /\ state = STATE_OPEN /\ failure_threshold >= 2
    /\ fails_since = failure_threshold

LegalTransitions ==
  { <<STATE_CLOSED, STATE_OPEN>>, <<STATE_OPEN, STATE_HALF_OPEN>>,
    <<STATE_HALF_OPEN, STATE_OPEN>>, <<STATE_HALF_OPEN, STATE_CLOSED>> }

\* C2 (any interleaving): every change of the breaker state follows
\* Closed->Open, Open->HalfOpen, HalfOpen->Open or HalfOpen->Closed; in
\* particular never Open->Closed and never Closed->HalfOpen.
C2_OnlyLegalTransitions ==
  [][state' # state => <<state, state'>> \in LegalTransitions]_vars

\* C3 (any interleaving, non-decreasing clock): a before_request() during
\* which the breaker is Open with fewer than timeout_secs elapsed since
\* opened_at returns CircuitOpenError, and its remaining_secs is not above the
\* remaining_secs reported by the last such call that returned before it began.
C3_CoolDownDeniesMonotonically ==
  \A t \in Threads :
    (Done(t, "before_request") /\ open_all[t]) =>
       /\ ret[t].kind = "circuit_open_error"
       /\ rem_base[t] # None => ret[t].remaining <= rem_base[t]

\* C4 as stated (any interleaving): at most one successful Open->HalfOpen
\* compare_exchange per Open episode, and every load of the state made by
\* before_request() after that transition and before a later trip yields
\* HalfOpen.
C4_AllSeeHalfOpenUntilTrip ==
  /\ cas_wins <= 1
  /\ \A t \in Threads : read_win[t] => st[t] = STATE_HALF_OPEN

\* C4 amended: at most one successful Open->HalfOpen compare_exchange per Open
\* episode, and every load of the state made by before_request() after that
\* transition and before a later trip or close yields HalfOpen.
C4_AllSeeHalfOpenUntilTripOrClose ==
  /\ cas_wins <= 1
  /\ \A t \in Threads : read_live[t] => st[t] = STATE_HALF_OPEN

\* C4 witness: one caller has won the compare_exchange and the other caller's
\* before_request() has loaded the state after it.
C4_Witness ==
  \E t, u \in Threads :
    /\ t # u /\ won_cas[t] /\ pc[t] = "br_reset"
    /\ meth[u] = "before_request" /\ read_live[u] /\ lost_cas[u]

\* C5 as stated: a before_request() whose compare_exchange failed returns the
\* circuit-open error.
C5_LosersDenied ==
  \A t \in Threads :
    (Done(t, "before_request") /\ lost_cas[t]) =>
       ret[t].kind = "circuit_open_error"

\* C5 amended: a before_request() whose compare_exchange succeeded returns Ok;
\* one whose compare_exchange failed decides on the state it loads next: Ok
\* when that is HalfOpen or Closed, the circuit-open error only when it is
\* Open again with the timeout not elapsed.
C5_LosersDecideOnReloadedState ==
  \A t \in Threads :
    Done(t, "before_request") =>
       /\ won_cas[t] => ret[t] = OkRet
       /\ (lost_cas[t] /\ ~won_cas[t]) =>
             IF st[t] = STATE_OPEN
             THEN /\ el[t] < timeout_secs
                  /\ ret[t] = CircuitOpenError(timeout_secs - el[t])
             ELSE ret[t] = OkRet

\* C5 witness: a caller that lost the compare_exchange has been allowed
\* through.
C5_Witness ==
  \E t \in Threads :
    Done(t, "before_request") /\ lost_cas[t] /\ ~won_cas[t] /\ ret[t] = OkRet

\* C6 (one caller at a time): on a HalfOpen breaker an on_failure() leaves it
\* Open with opened_at read from the clock during the call and both counters
\* 0; the success_threshold-th on_success() since HalfOpen was entered leaves
\* it Closed with both counters 0, an earlier one leaves it HalfOpen.
C6_HalfOpenOutcomes ==
  \A t \in Threads :
    /\ (Done(t, "on_failure") /\ pre[t].state = STATE_HALF_OPEN) =>
          /\ state = STATE_OPEN
          /\ pre[t].now <= opened_at /\ opened_at <= now
          /\ failure_count = 0 /\ success_count = 0
    /\ (Done(t, "on_success") /\ pre[t].state = STATE_HALF_OPEN) =>
          IF ho_succ = success_threshold
          THEN state = STATE_CLOSED /\ failure_count = 0 /\ success_count = 0
          ELSE /\ ho_succ < success_threshold
               /\ state = STATE_HALF_OPEN /\ success_count = ho_succ

\* C6 witness: the second of two successes has closed a HalfOpen breaker.
C6_Witness ==
  \E t \in Threads :
    /\ Done(t, "on_success") /\ pre[t].state = STATE_HALF_OPEN
    /\ success_threshold >= 2 /\ ho_succ = success_threshold
    /\ state = STATE_CLOSED

\* C7 (one caller at a time): an execute that is denied returns
\* StellarError::CircuitOpen with the remaining seconds and has not invoked the
\* wrapped call; one whose wrapped call failed returns StellarError::Http; and
\* after failure_threshold consecutive executes whose wrapped call failed the
\* breaker is Open, so that the next execute invokes the wrapped call only if
\* it found the timeout elapsed.
C7_DeniedExecuteMakesNoCall ==
  /\ \A t \in Threads :
       (op[t] = "execute" /\ pc[t] = "done") =>
          /\ ret[t].kind = "CircuitOpen" <=> f_calls[t] = 0
          /\ ret[t].kind = "CircuitOpen" =>
                /\ el[t] # None /\ el[t] < timeout_secs
                /\ ret[t].remaining = timeout_secs - el[t]
          /\ f_res[t] = "err" => ret[t] = StellarHttp
          /\ f_res[t] = "ok" => ret[t] = OkRet
  /\ ((\A t \in Threads : pc[t] = "idle") /\ streak >= failure_threshold) =>
        state = STATE_OPEN
  /\ \A t \in Threads :
       ( /\ op[t] = "execute" /\ pc[t] # "done"
         /\ streak >= failure_threshold
         /\ (pc[t] = "ex_call" \/ f_calls[t] > 0) ) =>
          (el[t] # None /\ el[t] >= timeout_secs)

\* C7 witness: after failure_threshold failing executes, an execute has been
\* denied without a call.
C7_Witness ==
  \E t \in Threads :
    /\ op[t] = "execute" /\ pc[t] = "done"
    /\ ret[t].kind = "CircuitOpen" /\ f_calls[t] = 0
    /\ streak >= failure_threshold /\ failure_threshold >= 2

\* HTTP attempts made so far by the ledger call of t: invocations of the
\* wrapped call under execute, requests sent under the client of stellar.rs.
Attempts(t) == IF op[t] = "execute" THEN f_calls[t] ELSE Len(hist[t])

\* C8 (one caller at a time): in every ledger call no HTTP attempt is made
\* before before_request() has returned Ok in that call, and when the call has
\* ended exactly one on_success()/on_failure() report was made if it was
\* admitted, none if it was not.
C8_AdmissionAttemptReport ==
  \A t \in Threads :
    op[t] \in LedgerCalls \cup {"execute"} =>
       /\ Attempts(t) > 0 => admitted[t]
       /\ reports[t] > 0 => Attempts(t) > 0
       /\ pc[t] = "done" => reports[t] = (IF admitted[t] THEN 1 ELSE 0)

\* Answers that make the operation fail with a retryable error.
RetryableResp == {"conn_error", "5xx"}

OnlyRetryableBefore(t, n) == \A i \in 1..(n - 1) : hist[t][i] \in RetryableResp

\* C9: a ledger call never makes more than max_attempts attempts; when the
\* ledger answered k attempts with a retryable failure and the next with a
\* success, the call returns that success after exactly k+1 attempts; when all
\* its attempts were answered with a retryable failure there were exactly
\* max_attempts of them and the call returns the error of the last.
C9_RetriesUntilSuccessOrExhaustion ==
  \A t \in Threads :
    op[t] \in LedgerCalls =>
      LET n == Len(hist[t]) IN
      /\ n <= max_attempts
      /\ pc[t] \in {"rt_decide", "rt_sleep", "done"} => n = attempt[t]
      /\ (pc[t] = "done" /\ OnlyRetryableBefore(t, n)) =>
            /\ hist[t][n] = "2xx_hit" =>
                  /\ lres[t].ok
                  /\ lres[t].val = (IF op[t] = "verify_hash" THEN "verified"
                                    ELSE "transaction_id")
            /\ hist[t][n] \in RetryableResp =>
                  /\ n = max_attempts
                  /\ ~lres[t].ok
                  /\ lres[t].val = (IF hist[t][n] = "5xx" THEN "server_error"
                                    ELSE "request_failed_connection")

\* C9 witness: a call has returned the success of its last allowed attempt
\* after retryable failures of all the earlier ones.
C9_Witness ==
  \E t \in Threads :
    /\ op[t] \in LedgerCalls /\ pc[t] = "done"
    /\ Len(hist[t]) = max_attempts /\ max_attempts >= 2
    /\ hist[t][max_attempts] = "2xx_hit" /\ lres[t].ok

\* C10: only an attempt that failed with a retryable error is followed by
\* another attempt; a call whose last attempt met a non-retryable failure
\* returns that error, and on the submit and revoke paths a 4xx answer is such
\* a failure, returned as the client error.
C10_NoRetryAfterTerminalFailure ==
  \A t \in Threads :
    op[t] \in LedgerCalls =>
      LET n == Len(hist[t]) IN
      /\ OnlyRetryableBefore(t, n)
      /\ pc[t] = "rt_sleep" => hist[t][n] \in RetryableResp
      /\ (pc[t] = "done" /\ hist[t][n] \in {"transport_error", "2xx_bad_json"}) =>
            /\ ~lres[t].ok
            /\ lres[t].val = (IF hist[t][n] = "transport_error"
                              THEN "request_failed" ELSE "parse_error")
      /\ (pc[t] = "done" /\ hist[t][n] = "4xx"
            /\ op[t] \in {"submit_hash", "revoke_hash"}) =>
            /\ ~lres[t].ok
            /\ lres[t].val = "client_error"

\* C10 witness: a submit or revoke has returned the client error after one
\* attempt although more attempts were allowed.
C10_Witness ==
  \E t \in Threads :
    /\ op[t] \in {"submit_hash", "revoke_hash"} /\ pc[t] = "done"
    /\ hist[t] = <<"4xx">> /\ max_attempts >= 2
    /\ lres[t] = Err("client_error")

\* Rank of the first record of the page whose memo contains the hash.
FirstMatch(records, h) ==
  CHOOSE i \in 1..Len(records) :
    /\ records[i].memo.some /\ Contains(records[i].memo.text, h)
    /\ \A j \in 1..(i - 1) :
         ~(records[j].memo.some /\ Contains(records[j].memo.text, h))

\* C11: verify_hash returns Ok with verified=false and no transaction id or
\* timestamp when the last answer was a 4xx or a page without a memo
\* containing the hash, and no attempt follows such an answer; it returns
\* verified=true with the id of the first record whose memo contains the hash
\* when the page has one; after a final 5xx answer it returns an error.
C11_VerifyHashResult ==
  \A t \in Threads :
    op[t] = "verify_hash" =>
      LET n == Len(hist[t]) IN
      /\ \A i \in 1..(n - 1) : hist[t][i] \notin {"4xx", "2xx_miss", "2xx_hit"}
      /\ pc[t] = "done" =>
           /\ lres[t].ok = vres.ok
           /\ hist[t][n] = "4xx" => vres = VOk(Unverified)
           /\ (hist[t][n] \in {"2xx_miss", "2xx_hit"}
                 /\ ~HasMatch(page, doc_hash)) => vres = VOk(Unverified)
           /\ HasMatch(page, doc_hash) =>
                /\ vres.ok /\ vres.result.verified
                /\ vres.result.transaction_id =
                     SomeV(page[FirstMatch(page, doc_hash)].id)
           /\ hist[t][n] = "5xx" => ~vres.ok /\ vres.err = "server_error"

\* C11 witness: a call has returned the id of the first of two records of a
\* page whose memos both contain the hash.
C11_Witness ==
  \E t \in Threads :
    /\ op[t] = "verify_hash" /\ pc[t] = "done"
    /\ Len(page) >= 2 /\ HasMatch(page, doc_hash)
    /\ \E i, j \in 1..Len(page) :
         /\ i < j
         /\ Contains(page[i].memo.text, doc_hash) /\ page[i].memo.some
         /\ Contains(page[j].memo.text, doc_hash) /\ page[j].memo.some
    /\ vres.result.transaction_id = SomeV(FirstMatch(page, doc_hash))

VerifyOps == {"verify_document", "verify_single_hash"}

\* verified, transaction_id and timestamp of a response or of a batch item
Verification(b) == <<b.verified, b.transaction_id, b.timestamp>>

\* A verify that asked the ledger and wrote its response has left that
\* response in the entry under the normalized hash.
StoredUnderNormalizedHash(t) ==
  LET r == req[t] IN
  (r.op \in VerifyOps /\ r.pc = "done" /\ r.calls = 1 /\ r.out.status = 200
     /\ (r.op = "verify_single_hash" => r.out.body.error = "none") /\ ~r.werr) =>
       r.after = SerVerifyResponse(r.resp)

C13_CacheErrorsNeverFailTheRequest ==
  \A t \in Threads :
    LET r == req[t] IN
    (r.pc = "done" /\ r.op \in VerifyOps \cup {"record_transfer"}) =>
       /\ ~r.got.ok => IF r.op \in VerifyOps THEN r.calls = 1
                       ELSE r.history # << >>
       /\ r.werr => r.out.status = 200

\* C14: in the in-process backend a key reads as the value of the last set
\* of that key not followed by a delete of it, whatever the ttl and the time
\* passed, and as None otherwise; a get answers exactly that; after two
\* overlapping sets of one key the key holds one of the two values written;
\* and a set or delete of one key leaves every other key as it was.
ReadsAs(s, k, n) == GetRaw(s, k, n, FALSE)
C14_InMemoryCache ==
  /\ [](/\ \A k \in CacheKeys : ReadsAs(store, k, now) = Expected(k)
        /\ \A t \in Threads :
             (req[t].pc = "done" /\ req[t].op = "get_raw")
                => req[t].got = req[t].before.exp
        /\ \A t, u \in Threads :
             (/\ t # u /\ req[t].pc = "done" /\ req[u].pc = "done"
              /\ req[t].op = "set_raw" /\ req[u].op = "set_raw"
              /\ req[t].key = req[u].key)
                => ReadsAs(store, req[t].key, now)
                     \in {CacheSome(req[t].input), CacheSome(req[u].input)})
  /\ [][\A t \in Threads :
          (req[t].pc = "m_held" /\ req'[t].pc = "done")
             => \A k \in CacheKeys \ {req[t].key} :
                  ReadsAs(store', k, now') = ReadsAs(store, k, now)]_vars

\* A get has returned the value of a set whose ttl had run out, while the
\* other key holds a value of its own.
C14_Witness ==
  \E t \in Threads :
     /\ req[t].pc = "done" /\ req[t].op = "get_raw"
     /\ req[t].got.some /\ req[t].before.late
     /\ \E k \in CacheKeys \ {req[t].key} : Live(store, k, now)

\* C15: a successful record_transfer that no other request overlapped
\* leaves under "transfer:"+hash the list stored before with its own record
\* appended, so the list grows by exactly one and the earlier records keep
\* their order. (Two overlapping requests can both succeed and leave one
\* record: the state of C15_Witness.)
StoredHistory(s, k, n) == IF Live(s, k, n) THEN DeHistory(s[k].val).val ELSE << >>
C15_SequentialTransferAppends ==
  [][\A t \in Threads :
       (/\ req[t].pc = "t_set" /\ req'[t].pc = "done"
        /\ req'[t].out.status = 200 /\ ~req'[t].overlap)
          => StoredHistory(store', req[t].key, now')
               = Append(StoredHistory(store, req[t].key, now), req[t].record)]_vars

\* Two record_transfer requests for one document hash, with different
\* records, have both answered 200 and the stored history holds one record.
C15_Witness ==
  \E t, u \in Threads :
     /\ t # u
     /\ req[t].pc = "done" /\ req[u].pc = "done"
     /\ req[t].op = "record_transfer" /\ req[u].op = "record_transfer"
     /\ req[t].out.status = 200 /\ req[u].out.status = 200
     /\ req[t].key = req[u].key /\ req[t].record # req[u].record
     /\ Len(StoredHistory(store, req[t].key, now)) = 1

C17_AtMostOneRetryLastAttemptReported ==
  \A i \in DOMAIN task :
     LET t == task[i]
         n == Len(t.posts)
         firstOk == t.posts[1].kind = "http" /\ IsSuccess(t.posts[1].status)
     IN /\ n <= 2
        /\ n = 2 => t.slept = RetryDelaySecs
        /\ Finished(i) =>
             /\ n = IF firstOk THEN 1 ELSE 2
             /\ t.slept = IF firstOk THEN 0 ELSE RetryDelaySecs
             /\ t.result = Attempt(urls[i], t.posts[n])

\* A task whose first attempt met 503 and whose second met 200 has finished
\* and reports the success, with status 200 and no error.
C17_Witness ==
  \E i \in DOMAIN task :
     /\ Finished(i)
     /\ task[i].posts = << [kind |-> "http", status |-> 503],
                          [kind |-> "http", status |-> 200] >>
     /\ task[i].result.success
     /\ task[i].result.status_code = SomeV(200)
     /\ ~task[i].result.error.some

\* C18: a finished task all of whose attempts failed at transport level
\* reports success = false, no status code and a non-empty error, and
\* dispatch returns that result in its place like any other; and a step of
\* one delivery task leaves the attempts made and the result of every other
\* task as they were.
AllTransport(i) == \A n \in DOMAIN task[i].posts : task[i].posts[n].kind = "transport"
C18_TransportFailureContained ==
  /\ [](\A i \in DOMAIN task :
          (Finished(i) /\ AllTransport(i)) =>
             /\ ~task[i].result.success
             /\ task[i].result.status_code = NoneV
             /\ task[i].result.error.some
             /\ task[i].result.error.text # NoText
             /\ dsp.pc = "done" => dsp.results[i] = task[i].result)
  /\ [][\A i \in DOMAIN task :
          (task[i].pc # "none" /\ task'[i] # task[i])
             => \A j \in DOMAIN task \ {i} : task'[j] = task[j]]_vars

\* dispatch has returned for two targets: the first failed twice at
\* transport level, the second was delivered by its one attempt.
C18_Witness ==
  /\ dsp.pc = "done" /\ Len(urls) = 2
  /\ Len(task[1].posts) = 2 /\ AllTransport(1)
  /\ ~dsp.results[1].success /\ dsp.results[1].error.some
  /\ Len(task[2].posts) = 1 /\ dsp.results[2].success

\* C19: once dispatch has returned every delivery task of the call has
\* finished, its delayed retry included, and no task makes a step (no POST
\* is pending or starts) afterwards.
C19_ReturnsAfterAllTasks ==
  /\ [](dsp.pc = "done" => \A i \in DOMAIN task : Finished(i))
  /\ [][dsp.pc = "done" => task' = task]_vars

\* dispatch has returned to its caller after the last of two tasks to
\* finish had slept and retried.
C19_Witness ==
  /\ dsp.pc = "done" /\ caller.pc = "returned" /\ caller.has
  /\ \E i \in DOMAIN task :
        /\ task[i].rank = 2
        /\ task[i].slept = RetryDelaySecs
        /\ Len(task[i].posts) = 2

\* C20: fire returns to its caller in the step that calls it, before any
\* delivery task exists; the caller of fire never holds a result; and the
\* dispatch fire has spawned goes on to finish every delivery, retries
\* included, and to log one line per url.
C20_FireDoesNotWait ==
  /\ [][(caller.pc = "idle" /\ caller'.mode = "fire")
          => /\ caller'.pc = "returned"
             /\ \A i \in DOMAIN task' : task'[i].posts = << >>]_vars
  /\ [](caller.mode = "fire" => ~caller.has /\ caller.got = << >>)
  /\ (caller.mode = "fire") ~>
        (/\ dsp.pc = "done"
         /\ \A i \in DOMAIN task : Finished(i)
         /\ Len(wlog) = Len(urls)
         /\ \A i \in DOMAIN urls : wlog[i].url = urls[i])

\* The caller of fire has returned while the delivery tasks of two urls
\* have been spawned and none has made its first POST.
C20_Witness ==
  /\ caller.mode = "fire" /\ caller.pc = "returned"
  /\ Len(urls) = 2
  /\ \A i \in DOMAIN task : task[i].pc = "first" /\ task[i].posts = << >>

(* ------------------ calls of sign and verify_signature ----------------- *)
\* A body is signed, then the signature (or a string made from it) is
\* verified with some secret and some body.
InitSign ==
  /\ InitCoreIdle
  /\ max_attempts = 1
  /\ InitVerifyIdle /\ InitCacheIdle /\ InitHookIdle
  /\ hh = [pc |-> "idle"]
  /\ calc \in { [fn |-> "sign", secret |-> s, body |-> b] : s \in Secrets, b \in Bodies }

SignCall ==
  /\ calc.fn = "sign"
  /\ calc' = [fn |-> "signed", secret |-> calc.secret, body |-> calc.body,
              sig |-> Sign(calc.secret, calc.body)]
  /\ UNCHANGED <<coreVars, verifyVars, cacheVars, hookVars, hh>>

\* What a receiver may be handed in place of the signature that was made.
Handed(sig, how) ==
  CASE how = "as_signed" -> sig
    [] how = "no_prefix" -> [sig EXCEPT !.prefix = ""]
    [] how = "sha1_prefix" -> [sig EXCEPT !.prefix = "sha1="]
    [] how = "not_hex" -> [sig EXCEPT !.hex = FALSE]

VerifyCall(s, b, how) ==
  /\ calc.fn = "signed"
  /\ calc' = [fn |-> "verify_signature", secret |-> calc.secret, body |-> calc.body,
              sig |-> calc.sig, again |-> Sign(calc.secret, calc.body),
              secret2 |-> s, body2 |-> b, given |-> Handed(calc.sig, how),
              ok |-> VerifySignature(s, b, Handed(calc.sig, how))]
  /\ UNCHANGED <<coreVars, verifyVars, cacheVars, hookVars, hh>>

NextSign ==
  \/ SignCall
  \/ \E s \in Secrets, b \in Bodies :
       \E how \in {"as_signed", "no_prefix", "sha1_prefix", "not_hex"} :
          VerifyCall(s, b, how)

SpecSign == InitSign /\ [][NextSign]_vars

\* C21: sign(s, b) starts with "sha256=" and is the same on every call; the
\* signature of (s, b) verifies with secret s' and body b' exactly when
\* s' = s and b' = b.
C21_SignatureVerifiesOnlySameSecretAndBody ==
  calc.fn = "verify_signature" =>
     /\ calc.sig.prefix = "sha256=" /\ calc.again = calc.sig
     /\ calc.given = calc.sig =>
          (calc.ok <=> (calc.secret2 = calc.secret /\ calc.body2 = calc.body))

\* C21 (amended): as above, with "s' = s" replaced by "s' gives the same
\* HMAC key as s", i.e. the same bytes once padded with zero bytes to the
\* 64-byte block (or the same digest when longer than a block).
C21_SignatureVerifiesOnlySameKeyAndBody ==
  calc.fn = "verify_signature" =>
     /\ calc.sig.prefix = "sha256=" /\ calc.again = calc.sig
     /\ calc.given = calc.sig =>
          (calc.ok <=> (/\ HmacKey(calc.secret2) = HmacKey(calc.secret)
                        /\ calc.body2 = calc.body))

\* The signature of a non-empty body under a non-empty secret has been
\* accepted with that secret and body.
C21_Witness ==
  /\ calc.fn = "verify_signature"
  /\ calc.given = calc.sig /\ calc.ok
  /\ calc.secret = calc.secret2 /\ calc.secret # << >> /\ calc.body # << >>

(* --------------------------- extract_cursor --------------------------- *)
\* Urls are strings of characters. The query parameters a next link of the
\* ledger can carry, and the links with up to MaxParams of them.
TransactionsUrl == <<"h", ":", "/", "/", "x", "/", "t", "x", "s">>
CursorEq == <<"c", "u", "r", "s", "o", "r", "=">>
CursorParam(c) == CursorEq \o c
LimitParam == <<"l", "i", "m", "i", "t", "=", "2", "0", "0">>
OrderParam == <<"o", "r", "d", "e", "r", "=", "a", "s", "c">>
QueryParams == { CursorParam(<<"1">>), CursorParam(<<"2", "3">>), LimitParam,
                 OrderParam, <<"x">> \o CursorParam(<<"9">>) }

RECURSIVE Join(_, _)
Join(parts, sep) ==
  IF parts = << >> THEN << >>
  ELSE IF Len(parts) = 1 THEN parts[1]
  ELSE parts[1] \o <<sep>> \o Join(Tail(parts), sep)

\* base?p1&p2&...
Href(params) ==
  IF params = << >> THEN TransactionsUrl
  ELSE TransactionsUrl \o <<"?">> \o Join(params, "&")
Hrefs == { Href(ps) : ps \in SeqsUpTo(QueryParams, MaxParams) }

\* str::split(sep): the pieces between the separators, in order
RECURSIVE Split(_, _)
Split(str, sep) ==
  IF \A i \in DOMAIN str : str[i] # sep THEN <<str>>
  ELSE LET i == CHOOSE k \in DOMAIN str :
                  str[k] = sep /\ \A j \in 1..(k - 1) : str[j] # sep
       IN <<SubSeq(str, 1, i - 1)>> \o Split(SubSeq(str, i + 1, Len(str)), sep)

StartsWith(str, prefix) ==
  Len(str) >= Len(prefix) /\ SubSeq(str, 1, Len(prefix)) = prefix

\* str::trim_start_matches(prefix): the prefix is removed as often as it is there
RECURSIVE TrimStartMatches(_, _)
TrimStartMatches(str, prefix) ==
  IF prefix # << >> /\ StartsWith(str, prefix)
  THEN TrimStartMatches(SubSeq(str, Len(prefix) + 1, Len(str)), prefix)
  ELSE str

\* Option<String>
NoCursor == [some |-> FALSE, text |-> NoText]
SomeCursor(c) == [some |-> TRUE, text |-> c]

\* stellar.rs:460-464: extract_cursor
ExtractCursor(url) ==
  LET parts == Split(url, "&")
      found == { i \in DOMAIN parts : StartsWith(parts[i], CursorEq) }
  IN IF found = {} THEN NoCursor
     ELSE LET i == CHOOSE k \in found : \A j \in found : k <= j
          IN SomeCursor(TrimStartMatches(parts[i], CursorEq))

\* The value of the first query parameter named cursor: the query is what
\* follows the first '?', its parameters are separated by '&', a
\* parameter is name=value.
QueryCursor(url) ==
  LET afterQ == Split(url, "?")
      query == IF Len(afterQ) < 2 THEN << >> ELSE Join(Tail(afterQ), "?")
      params == IF query = << >> THEN << >> ELSE Split(query, "&")
      found == { i \in DOMAIN params : StartsWith(params[i], CursorEq) }
  IN IF found = {} THEN NoCursor
     ELSE LET i == CHOOSE k \in found : \A j \in found : k <= j
          IN SomeCursor(SubSeq(params[i], Len(CursorEq) + 1, Len(params[i])))

InitCursor ==
  /\ InitCoreIdle
  /\ max_attempts = 1
  /\ InitVerifyIdle /\ InitCacheIdle /\ InitHookIdle
  /\ hh = [pc |-> "idle"]
  /\ calc \in { [fn |-> "extract_cursor", url |-> u] : u \in Hrefs }

ExtractCall ==
  /\ calc.fn = "extract_cursor"
  /\ calc' = [fn |-> "extracted", url |-> calc.url, out |-> ExtractCursor(calc.url)]
  /\ UNCHANGED <<coreVars, verifyVars, cacheVars, hookVars, hh>>

NextCursor == ExtractCall

SpecCursor == InitCursor /\ [][NextCursor]_vars

\* C29: extract_cursor(url) is the value of the url's cursor query
\* parameter when the url has one, also when cursor is the first parameter
\* after '?', and None when it has none.
C29_ExtractCursorIsCursorParameter ==
  calc.fn = "extracted" => calc.out = QueryCursor(calc.url)

(* -------------------------- get_hash_history --------------------------- *)
\* The hash asked for and the transactions the ledger may hold: a memo that
\* contains the hash (with a later date, an earlier date, a date that does
\* not parse), a memo that does not, no memo.
HistoryHash == <<"a", "b">>
RecordKinds ==
  { <<SomeMemo(<<"a", "b">>), "2024-01-01T00:00:00Z">>,
    <<SomeMemo(<<"x", "a", "b">>), "2023-01-01T00:00:00Z">>,
    <<SomeMemo(<<"a", "b", "y">>), "not-a-date">>,
    <<SomeMemo(<<"b", "a">>), "2024-01-01T00:00:00Z">>,
    <<NoMemo, "2024-01-01T00:00:00Z">> }

\* The paging token of the last record of page p, and the next link of
\* page p in the two orders the ledger may write its parameters.
PagingTokens == <<"1", "2", "3", "4">>
LinkForms == {"cursor_first", "cursor_last"}
NextHref(p, form) ==
  IF form = "cursor_first"
  THEN Href(<<CursorParam(<<PagingTokens[p]>>), LimitParam, OrderParam>>)
  ELSE Href(<<LimitParam, OrderParam, CursorParam(<<PagingTokens[p]>>)>>)

\* HorizonPaginatedResponse (stellar.rs:68-74): the records of page p and
\* its next link, if any. Transaction ids are unique in the ledger.
HistoryPage(p, shape, next) ==
  [records |-> [j \in 1..Len(shape) |->
                  Transaction(10 * p + j, shape[j][1], shape[j][2])],
   next |-> next]

RECURSIVE TotalLen(_)
TotalLen(seqs) == IF seqs = << >> THEN 0 ELSE Len(seqs[1]) + TotalLen(Tail(seqs))

\* Finite chains of 1..MaxPages pages holding at most MaxRecords records:
\* every page but the last links to the next one.
Chains ==
  UNION { { [p \in 1..n |->
              HistoryPage(p, shapes[p],
                          IF p < n THEN SomeCursor(NextHref(p, forms[p]))
                          ELSE NoCursor)] :
              shapes \in { f \in [1..n -> SeqsUpTo(RecordKinds, MaxRecords)] :
                             TotalLen(f) <= MaxRecords },
              forms \in [1..n -> LinkForms] } : n \in 1..MaxPages }

\* The page the ledger answers with: the first without a cursor, else the
\* one after the record the cursor names.
PageFor(cursor) ==
  IF ~cursor.some THEN 1
  ELSE 1 + CHOOSE p \in DOMAIN PagingTokens : <<PagingTokens[p]>> = cursor.text

\* stellar.rs:414-428: the records of a page whose memo contains the hash,
\* as TransactionRecords (ledger numbers are left out of the model).
RECURSIVE MatchingRecords(_, _)
MatchingRecords(records, h) ==
  IF records = << >> THEN << >>
  ELSE LET tx == Head(records)
           ts == ParseTimestamp(tx.created_at)
       IN (IF tx.memo.some /\ Contains(tx.memo.text, h)
           THEN << [transaction_id |-> tx.id,
                    timestamp |-> IF ts.some THEN ts.val ELSE 0,
                    memo |-> tx.memo.text] >>
           ELSE << >>) \o MatchingRecords(Tail(records), h)

\* stellar.rs:454: sort_by_key(|r| r.timestamp), a stable sort
RECURSIVE SortByKey(_)
SortByKey(records) ==
  IF records = << >> THEN << >>
  ELSE LET n == Len(records)
           x == records[n]
           sorted == SortByKey(SubSeq(records, 1, n - 1))
           k == Cardinality({ i \in DOMAIN sorted : sorted[i].timestamp <= x.timestamp })
       IN SubSeq(sorted, 1, k) \o <<x>> \o SubSeq(sorted, k + 1, Len(sorted))

\* One call of get_hash_history on a ledger holding one chain of pages.
InitHistory ==
  /\ InitCoreIdle
  /\ max_attempts = 1
  /\ InitVerifyIdle /\ InitCacheIdle /\ InitHookIdle
  /\ calc = [fn |-> "none"]
  /\ hh \in { [pc |-> "loop", hash |-> HistoryHash, chain |-> c, cursor |-> NoCursor,
               all_records |-> << >>, requests |-> 0, ok |-> FALSE,
               result |-> << >>] : c \in Chains }

\* stellar.rs:380-456: one turn of the loop: the GET of the page at the
\* cursor; an answer that is no 2xx page ends the call with Err; else the
\* matching records are gathered and either the cursor of the next link is
\* taken, or the loop ends, the records are sorted and returned.
HhPage(resp) ==
  /\ hh.pc = "loop"
  /\ LET got_page == hh.chain[PageFor(hh.cursor)]
         all == hh.all_records \o MatchingRecords(got_page.records, hh.hash)
         new_cursor == IF got_page.next.some THEN ExtractCursor(got_page.next.text)
                       ELSE NoCursor
         asked == [hh EXCEPT !.requests = @ + 1]
     IN hh' = IF resp # "2xx_page" THEN [asked EXCEPT !.pc = "done"]
              ELSE IF new_cursor.some
              THEN [asked EXCEPT !.all_records = all, !.cursor = new_cursor]
              ELSE [asked EXCEPT !.all_records = all, !.pc = "done", !.ok = TRUE,
                                 !.result = SortByKey(all)]
  /\ UNCHANGED <<coreVars, verifyVars, cacheVars, hookVars, calc>>

NextHistory ==
  \E resp \in {"2xx_page", "send_error", "http_error", "bad_json"} : HhPage(resp)

SpecHistory == InitHistory /\ [][NextHistory]_vars

\* All records of the chain, page after page.
RECURSIVE AllOfChain(_)
AllOfChain(chain) ==
  IF chain = << >> THEN << >> ELSE chain[1].records \o AllOfChain(Tail(chain))

\* C22: get_hash_history never asks for more pages than the chain has;
\* when it returns Ok it has asked for every page of the chain, and what it
\* returns holds each record of the chain whose memo contains the hash
\* exactly once and no other, in ascending order of timestamp.
C22_HistoryIsAllMatchingRecordsSorted ==
  /\ hh.pc # "idle" => hh.requests <= Len(hh.chain)
  /\ (hh.pc = "done" /\ hh.ok) =>
       LET all == AllOfChain(hh.chain)
           want == { all[i].id : i \in { j \in DOMAIN all :
                       all[j].memo.some /\ Contains(all[j].memo.text, hh.hash) } }
           res == hh.result
       IN /\ hh.requests = Len(hh.chain)
          /\ { res[i].transaction_id : i \in DOMAIN res } = want
          /\ Len(res) = Cardinality(want)
          /\ \A i, j \in DOMAIN res : i < j => res[i].timestamp <= res[j].timestamp

(* ----------------------- batch_verify_documents ----------------------- *)
\* lib.rs:337: the largest batch accepted
MaxBatchSize == 50

\* Batches: every list of raw hashes that the item slots can run, and one
\* of MaxBatchSize + 1 valid hashes.
BatchRequests ==
  SeqsUpTo(RawHashes, Cardinality(Threads))
    \cup { Rep(Rep("a", Sha256HexLen), MaxBatchSize + 1) }

\* lib.rs:323-347: the batch is refused with 400 when it is empty or holds
\* more than 50 hashes; otherwise one future per hash is made.
BatchStart(hashes) ==
  /\ batch.pc = "idle"
  /\ \A t \in Threads : req[t].pc = "idle"
  /\ (hashes # << >> /\ Len(hashes) <= MaxBatchSize)
        => nreq + Len(hashes) <= MaxRequests
  /\ batch' =
       IF hashes = << >>
       THEN [pc |-> "done", hashes |-> hashes,
             out |-> Answer(400, ErrorBody("hashes array cannot be empty"))]
       ELSE IF Len(hashes) > MaxBatchSize
       THEN [pc |-> "done", hashes |-> hashes,
             out |-> Answer(400, ErrorBody("batch size exceeds maximum of 50 hashes"))]
       ELSE [pc |-> "running", hashes |-> hashes, out |-> NoAnswer]
  /\ UNCHANGED <<coreVars, verifyVars, hookVars, pureVars, backend, rwlock, store, req,
                 expect, nreq>>

\* lib.rs:350-357: join_all polls the future of item i: verify_single_hash
\* starts on hash i.
BatchItem(i) ==
  /\ batch.pc = "running"
  /\ i \in DOMAIN batch.hashes
  /\ VStart(i, "verify_single_hash", batch.hashes[i])

\* BatchVerifyResponse (lib.rs:83-88)
BatchVerifyResponse(results, total, verified_count) ==
  [results |-> results, total |-> total, verified_count |-> verified_count,
   failed_count |-> Len(results) - verified_count]

\* a batch counting as verified every item without an error
BatchJoin_CountsErrorFree ==
  /\ batch.pc = "running"
  /\ \A i \in DOMAIN batch.hashes : req[i].pc = "done"
  /\ LET results == [i \in DOMAIN batch.hashes |-> req[i].out.body]
     IN batch' = [batch EXCEPT !.pc = "done",
                    !.out = Answer(200, BatchVerifyResponse(results, Len(batch.hashes),
                               Cardinality({i \in DOMAIN results :
                                              results[i].error = "none"})))]
  /\ UNCHANGED <<coreVars, verifyVars, hookVars, pureVars, backend, rwlock, store, req,
                 expect, nreq>>

\* lib.rs:359-371: every item has returned; join_all gives the items in the
\* order of the hashes, the counts are taken and the response is sent.
BatchJoin ==
  /\ batch.pc = "running"
  /\ \A i \in DOMAIN batch.hashes : req[i].pc = "done"
  /\ LET results == [i \in DOMAIN batch.hashes |-> req[i].out.body]
     IN batch' = [batch EXCEPT !.pc = "done",
                    !.out = Answer(200, BatchVerifyResponse(results, Len(batch.hashes),
                               Cardinality({i \in DOMAIN results :
                                              results[i].verified})))]
  /\ UNCHANGED <<coreVars, verifyVars, hookVars, pureVars, backend, rwlock, store, req,
                 expect, nreq>>

\* Verify requests, then one batch whose items run concurrently.
NextBatch ==
  \/ \E hashes \in BatchRequests : BatchStart(hashes)
  \/ BatchJoin
  \/ \E t \in Threads :
       \/ BatchItem(t)
       \/ \E raw \in RawHashes : batch.pc = "idle" /\ VStart(t, "verify_document", raw)
       \/ \E fail \in BOOLEAN : VGet(t, fail)
       \/ \E res \in LedgerResults : VLedger(t, res)
       \/ \E fail \in BOOLEAN : VSet(t, fail)
       \/ batch.pc = "idle" /\ CAck(t)

SpecBatch == InitOrch /\ [][NextBatch]_vars

MAX_MEMO_LENGTH == 28

\* A string is the sequence of its characters, a character being known by
\* the number of bytes of its UTF-8 encoding. Inputs: a run of one-byte
\* characters, then a run of characters of 2, 3 or 4 bytes, then at most
\* one more one-byte character.
MemoInputs ==
  { Rep(1, a) \o Rep(w, b) \o Rep(1, c) :
      a \in 0..MaxAsciiRun, w \in {2, 3, 4}, b \in 0..MaxWideRun, c \in 0..1 }

\* str::len, in bytes
RECURSIVE ByteLen(_)
ByteLen(str) == IF str = << >> THEN 0 ELSE Head(str) + ByteLen(Tail(str))

\* str::is_char_boundary: the start, the end, or where a character starts
IsCharBoundary(str, index) ==
  \E k \in 0..Len(str) : ByteLen(SubSeq(str, 1, k)) = index

\* &hash[..end] for a boundary end
SliceTo(str, end) ==
  SubSeq(str, 1, CHOOSE k \in 0..Len(str) : ByteLen(SubSeq(str, 1, k)) = end)

\* stellar.rs:86-89: the loop looking for a boundary downwards from end
RECURSIVE BoundaryAtOrBelow(_, _)
BoundaryAtOrBelow(str, end) ==
  IF end > 0 /\ ~IsCharBoundary(str, end) THEN BoundaryAtOrBelow(str, end - 1)
  ELSE end

\* truncate_memo keeping the character that crosses the limit
TruncateMemo_KeepsCrossingChar(hash) ==
  IF ByteLen(hash) > MAX_MEMO_LENGTH
  THEN SubSeq(hash, 1, CHOOSE k \in 0..Len(hash) :
                          /\ ByteLen(SubSeq(hash, 1, k)) >= MAX_MEMO_LENGTH
                          /\ \A j \in 0..(k - 1) :
                               ByteLen(SubSeq(hash, 1, j)) < MAX_MEMO_LENGTH)
  ELSE hash

\* stellar.rs:77-94: truncate_memo
TruncateMemo(hash) ==
  IF ByteLen(hash) > MAX_MEMO_LENGTH
  THEN SliceTo(hash, BoundaryAtOrBelow(hash, MAX_MEMO_LENGTH))
  ELSE hash

InitMemo ==
  /\ InitCoreIdle
  /\ max_attempts = 1
  /\ InitVerifyIdle /\ InitCacheIdle /\ InitHookIdle
  /\ hh = [pc |-> "idle"]
  /\ calc \in { [fn |-> "truncate_memo", hash |-> s] : s \in MemoInputs }

TruncateCall ==
  /\ calc.fn = "truncate_memo"
  /\ calc' = [fn |-> "truncated", hash |-> calc.hash, out |-> TruncateMemo(calc.hash)]
  /\ UNCHANGED <<coreVars, verifyVars, cacheVars, hookVars, hh>>

NextMemo == TruncateCall

SpecMemo == InitMemo /\ [][NextMemo]_vars

\* C25: truncate_memo(s) is s when s has at most 28 bytes; otherwise it is
\* the longest prefix of whole characters of s that has at most 28 bytes;
\* in both cases it has at most 28 bytes, and 29 one-byte characters give 28.
C25_TruncateMemoLongestPrefixWithinLimit ==
  calc.fn = "truncated" =>
     LET str == calc.hash
         out == calc.out
     IN /\ ByteLen(out) <= MAX_MEMO_LENGTH
        /\ ByteLen(str) <= MAX_MEMO_LENGTH => out = str
        /\ ByteLen(str) > MAX_MEMO_LENGTH =>
             /\ Len(out) < Len(str)
             /\ out = SubSeq(str, 1, Len(out))
             /\ ByteLen(SubSeq(str, 1, Len(out) + 1)) > MAX_MEMO_LENGTH
        /\ str = Rep(1, MAX_MEMO_LENGTH + 1) => ByteLen(out) = MAX_MEMO_LENGTH

\* A string of more than 28 bytes whose byte 28 falls inside a character
\* has been cut to its first 27 bytes, before that character.
C25_Witness ==
  /\ calc.fn = "truncated"
  /\ ByteLen(calc.hash) > MAX_MEMO_LENGTH
  /\ ~IsCharBoundary(calc.hash, MAX_MEMO_LENGTH)
  /\ ByteLen(calc.out) = MAX_MEMO_LENGTH - 1

(* ------------------ C26: HalfOpen admits every caller ------------------ *)
\* C26 (any interleaving): a before_request() that loads the state as
\* HalfOpen returns Ok whatever the other callers are doing, and that step
\* changes neither the state nor any counter; a before_request() that has
\* returned after loading HalfOpen has returned Ok.
C26_HalfOpenAdmitsEveryCaller ==
  /\ [](\A t \in Threads :
          (Done(t, "before_request") /\ st[t] = STATE_HALF_OPEN) =>
             ret[t] = OkRet)
  /\ [][\A t \in Threads :
          (pc[t] = "br_load" /\ pc'[t] # "br_load"
             /\ state = STATE_HALF_OPEN) =>
             /\ pc'[t] = "done" /\ ret'[t] = OkRet
             /\ breakerVars' = breakerVars]_vars

\* C26 witness: the breaker is HalfOpen and both callers' before_request()
\* loaded HalfOpen and returned Ok, the second while the first was still
\* admitted and had reported nothing.
C26_Witness ==
  /\ state = STATE_HALF_OPEN
  /\ \A t \in Threads :
       /\ Done(t, "before_request") /\ st[t] = STATE_HALF_OPEN
       /\ ret[t] = OkRet /\ ~won_cas[t]

(* -------------- C30: Closed is left only at the threshold -------------- *)
\* C30 (any interleaving): the state changes from Closed to Open only in the
\* trip of an on_failure() that loaded the state as Closed and whose
\* increment reached failure_threshold; an on_failure() that loaded HalfOpen
\* before a concurrent close does not open the now-Closed breaker.
C30_ClosedOpensOnlyAtThreshold ==
  [][(state = STATE_CLOSED /\ state' = STATE_OPEN) =>
        \E t \in Threads :
          /\ meth[t] = "on_failure"
          /\ pc[t] = "trip_state" /\ pc'[t] = "trip_fc"
          /\ st[t] = STATE_CLOSED]_vars

(* --------------- C27: one body and one signature per dispatch ---------- *)
\* C27: in one dispatch call the payload is serialized once and signed once;
\* every POST to every target, the first attempt and the retry alike, carries
\* the same body, the serialization of {event, data}, and the same signature
\* header value, which is sign(secret, body).
C27_OneBodyOneSignature ==
  LET body == ToVec(dsp.event, dsp.data) IN
  /\ dsp.serialized <= 1 /\ dsp.signed <= 1
  /\ \A i \in DOMAIN task :
       /\ Len(task[i].sent) = Len(task[i].posts)
       /\ \A k \in DOMAIN task[i].sent :
            /\ dsp.serialized = 1 /\ dsp.signed = 1
            /\ task[i].sent[k].url = urls[i]
            /\ task[i].sent[k].body = body
            /\ task[i].sent[k].x_smalda_signature = Sign(config_secret, body)

\* C27 witness: two different targets; the first has been sent a first
\* attempt and a retry, the second a first attempt.
C27_Witness ==
  /\ Len(urls) = 2 /\ urls[1] # urls[2]
  /\ Len(task[1].sent) = 2 /\ Len(task[2].sent) >= 1
  /\ dsp.data = "{}"

(* ------------- C28: the lock of the in-process backend ----------------- *)
\* C28: a guard of the in-process backend's lock is out only between the
\* await of the lock and the map operation of one get_raw, set_raw or delete
\* (a write guard alone, read guards only with read guards); the next step of
\* its holder is that map operation and drops it, so a task that has
\* returned, is idle or waits for the lock holds no guard; and every
\* operation waiting for the lock ends.
C28_LockHeldOnlyForTheMapOperation ==
  /\ [](/\ \A t \in Holders : req[t].pc = "m_held"
        /\ rwlock.writers # {} =>
              Cardinality(rwlock.writers) = 1 /\ rwlock.readers = {})
  /\ [][\A t \in Holders :
          req'[t].pc # req[t].pc =>
             /\ req'[t].pc = "done"
             /\ t \notin rwlock'.readers \cup rwlock'.writers]_vars
  /\ \A t \in Threads : (req[t].pc = "m_lock") ~> (req[t].pc = "done")

\* C28 witness: one task holds the write guard while the other waits for the
\* lock.
C28_Witness ==
  \E t, u \in Threads :
    /\ rwlock.writers = {t} /\ req[t].pc = "m_held"
    /\ req[u].pc = "m_lock"

(* ------------- C31: the counters when no call is under way ------------- *)
\* No breaker method is under way.
Quiescent == \A t \in Threads : pc[t] \in {"idle", "done"}

\* C31 (any interleaving): whenever no breaker operation is in progress, a
\* Closed breaker has success counter 0 and failure counter below
\* failure_threshold, an Open breaker has both counters 0 and opened_at equal
\* to the time read by the latest trip, a HalfOpen breaker has success
\* counter below success_threshold.
C31_CountersAtRest ==
  Quiescent =>
    CASE state = STATE_CLOSED ->
           success_count = 0 /\ failure_count < failure_threshold
      [] state = STATE_OPEN ->
           failure_count = 0 /\ success_count = 0 /\ opened_at = trip_at
      [] OTHER -> success_count < success_threshold

(* ------------- C32: reports that find the breaker Open ----------------- *)
\* C32 (any interleaving): an on_success() or on_failure() whose load of the
\* state yields Open returns at once and writes nothing: state, failure
\* counter, success counter and opened_at are as before, so the report of a
\* call admitted earlier leaves the cool-down as it was.
C32_ReportsWhileOpenChangeNothing ==
  [][\A t \in Threads :
       (pc[t] \in {"os_load", "of_load"} /\ pc'[t] # pc[t]
          /\ state = STATE_OPEN) =>
          /\ pc'[t] = "done" /\ ret'[t] = UnitRet
          /\ breakerVars' = breakerVars
          /\ CoolingDown(state', opened_at', now')
               = CoolingDown(state, opened_at, now)]_vars

\* C32 witness: an on_failure() has returned after loading Open while the
\* breaker is still cooling down.
C32_Witness ==
  \E t \in Threads :
    /\ Done(t, "on_failure") /\ st[t] = STATE_OPEN
    /\ CoolingDown(state, opened_at, now)

(* ---------------- C33: the range of remaining_secs --------------------- *)
\* SystemTime::now() is not monotonic: the clock is set back.
ClockBack ==
  /\ now > 0
  /\ now' = now - 1
  /\ UNCHANGED <<breakerVars, cfgVars, localVars, casHist, seqHist, callHist>>
  /\ TrackOpen(1, FALSE, None)

\* CircuitBreaker::new with any timeout_secs, 0 included.
InitClock ==
  /\ state = STATE_CLOSED
  /\ failure_count = 0
  /\ success_count = 0
  /\ opened_at = 0
  /\ failure_threshold \in 1..MaxFailureThreshold
  /\ success_threshold \in 1..MaxSuccessThreshold
  /\ timeout_secs \in 0..MaxTimeout
  /\ now = 1
  /\ InitLocals
  /\ InitHist
  /\ fails_since = None
  /\ ho_succ = None
  /\ streak = None
  /\ InitLedgerLocals
  /\ max_attempts = 1
  /\ InitExtIdle

\* One caller at a time; the clock moves at any point of a call.
NextClock ==
  \/ Tick
  \/ ClockBack
  \/ \E t \in Threads :
       \/ \E m \in Methods : Alone(t) /\ Call(t, m)
       \/ BreakerStep(t)

SpecClock == InitClock /\ [][NextClock]_vars

\* C33 (any clock): every CircuitOpenError returned by
\* before_request has 1 <= remaining_secs <= timeout_secs, also when the
\* clock read is earlier than opened_at, and with timeout_secs = 0 no
\* before_request returns an error.
C33_RemainingSecsInRange ==
  \A t \in Threads :
    (Done(t, "before_request") /\ ret[t].kind = "circuit_open_error") =>
       /\ timeout_secs # 0
       /\ 1 <= ret[t].remaining /\ ret[t].remaining <= timeout_secs
       /\ ret[t].remaining = timeout_secs - el[t]

\* C33 witness: a before_request() that loaded an opened_at later than the
\* clock it read has returned the error with the whole timeout remaining.
C33_Witness ==
  \E t \in Threads :
    /\ Done(t, "before_request") /\ ret[t].kind = "circuit_open_error"
    /\ oa[t] > now /\ el[t] = 0 /\ ret[t].remaining = timeout_secs

(* ------------------ C34: the breaker does not stay Open ---------------- *)
\* Callers come one at a time through execute; a call admitted while the
\* breaker is not Closed reports a success.
NextRecover ==
  \/ Tick
  \/ \E t \in Threads : Alone(t) /\ CallExecute(t)
  \/ \E t \in Threads : ExCall(t, "ok")
  \/ \E t \in Threads : state = STATE_CLOSED /\ ExCall(t, "err")
  \/ \E t \in Threads : BreakerStep(t)

\* The clock advances, callers keep coming, every call under way goes on
\* and the wrapped call of an admitted caller can succeed.
SpecRecover ==
  /\ InitSeq /\ [][NextRecover]_vars
  /\ WF_vars(Tick)
  /\ WF_vars(\E t \in Threads : Alone(t) /\ CallExecute(t))
  /\ \A t \in Threads : WF_vars(ExCall(t, "ok")) /\ WF_vars(BreakerStep(t))

\* C34: a before_request() begun on an Open breaker whose timeout has
\* elapsed since the latest trip is admitted and leaves the breaker
\* HalfOpen; the reports of success that follow close it at the
\* success_threshold-th and not before; so an Open breaker whose timeout can
\* still elapse is Closed again later.
C34_OpenBreakerRecovers ==
  /\ [](\A t \in Threads :
          /\ (/\ pc[t] \in {"ex_call", "done"} /\ meth[t] = "before_request"
              /\ pre[t].state = STATE_OPEN
              /\ SatSub(pre[t].now, pre[t].opened_at) >= timeout_secs) =>
                /\ pc[t] = "ex_call" /\ admitted[t]
                /\ state = STATE_HALF_OPEN
          /\ (Done(t, "on_success") /\ pre[t].state = STATE_HALF_OPEN) =>
                /\ ho_succ <= success_threshold
                /\ state = (IF ho_succ = success_threshold
                            THEN STATE_CLOSED ELSE STATE_HALF_OPEN))
  /\ [](state = STATE_OPEN /\ opened_at + timeout_secs <= MaxTime
          => <>(state = STATE_CLOSED))

\* C34 witness: an execute admitted on a HalfOpen breaker has reported the
\* second of two successes and the breaker is Closed.
C34_Witness ==
  \E t \in Threads :
    /\ op[t] = "execute" /\ Done(t, "on_success")
    /\ pre[t].state = STATE_HALF_OPEN
    /\ success_threshold = 2 /\ ho_succ = 2 /\ state = STATE_CLOSED

(* ------------------ C35: before_request terminates --------------------- *)
\* Any number of interleaved callers of a breaker with thresholds 1 and any
\* timeout_secs; every call under way goes on.
InitLive ==
  /\ InitClock
  /\ failure_threshold = 1
  /\ success_threshold = 1

SpecLive ==
  /\ InitLive /\ [][Next]_vars
  /\ \A t \in Threads : WF_vars(BreakerStep(t))

\* C35 (any interleaving): before_request() goes back to the load of the
\* state only from a compare_exchange that failed, that is when the state it
\* had loaded as Open is no longer Open; so every before_request() returns
\* Ok or CircuitOpenError unless the state changes infinitely often; and
\* every on_success() and on_failure() returns.
C35_BeforeRequestTerminates ==
  /\ [][\A t \in Threads :
          (pc[t] # "br_load" /\ pc'[t] = "br_load") =>
             \/ pc[t] = "idle"
             \/ pc[t] = "br_cas" /\ st[t] = STATE_OPEN /\ state # STATE_OPEN]_vars
  /\ \A t \in Threads :
       \/ []<><<state' # state>>_state
       \/ (meth[t] = "before_request" /\ pc[t] \notin {"idle", "done"})
             ~> (/\ Done(t, "before_request")
                 /\ ret[t].kind \in {"ok", "circuit_open_error"})
  /\ \A t \in Threads :
       (meth[t] \in {"on_success", "on_failure"} /\ pc[t] \notin {"idle", "done"})
         ~> (pc[t] = "done" /\ ret[t] = UnitRet)

\* C35 witness: a before_request() whose compare_exchange failed is back at
\* the load of the state.
C35_Witness ==
  \E t \in Threads :
    meth[t] = "before_request" /\ pc[t] = "br_load" /\ lost_cas[t]

(* ------------- C36: a failed ledger call is not cached ----------------- *)
\* C36: a verify whose ledger call ended in an error answers with an error
\* (500 from verify_document, an item with verified=false and the error from
\* verify_single_hash), has written nothing to the cache, and the step in
\* which its ledger call fails leaves every entry as it was; a verify whose
\* look-up finds no entry asks the ledger.
C36_LedgerErrorWritesNothing ==
  /\ [](\A t \in Threads :
          LET r == req[t] IN
          (r.pc = "done" /\ r.op \in VerifyOps) =>
             /\ r.lerr =>
                  /\ r.writes = 0
                  /\ IF r.op = "verify_document"
                     THEN r.out = Answer(500, ErrorBody("internal"))
                     ELSE r.out = Answer(200, BatchVerifyItem(r.input, Unverified,
                                                              "stellar query failed"))
             /\ (r.reads = 1 /\ ~r.present) => r.calls = 1)
  /\ [][\A t \in Threads :
          (req[t].pc = "v_ledger" /\ req'[t].pc = "done") => store' = store]_vars

\* C36 witness: two verifies of the same hash, one after the other, have
\* both asked the ledger and both been answered with its error; the cache
\* holds nothing.
C36_Witness ==
  \E t, u \in Threads :
    /\ t # u /\ req[t].key = req[u].key
    /\ \A x \in {t, u} :
         /\ req[x].pc = "done" /\ req[x].op \in VerifyOps
         /\ req[x].lerr /\ req[x].calls = 1 /\ ~req[x].overlap
    /\ store = NoEntries

(* ------------- C37: results with verified=false are cached ------------- *)
\* The step in which task t writes the response of its ledger call leaves it
\* as the entry of the hash.
CachedByStep(t) ==
  /\ Live(store', req[t].key, now')
  /\ store'[req[t].key].val = SerVerifyResponse(req[t].resp)

\* A verify of task t has ended whose look-up was made while the entry of its
\* hash held a response with verified=false.
FoundNotFound(t) ==
  /\ req[t].pc = "done" /\ req[t].op \in VerifyOps
  /\ req[t].present /\ ~req[t].before.verified

\* C37 as stated: every result the ledger call returned, verified=false
\* included, is stored by the write that follows; and a verify whose look-up
\* is made while the entry holds verified=false answers verified=false
\* without a ledger call.
C37_NotFoundIsCachedAndServed ==
  /\ [][\A t \in Threads :
          (req[t].pc = "v_set" /\ req'[t].pc = "done") => CachedByStep(t)]_vars
  /\ [](\A t \in Threads :
          FoundNotFound(t) =>
             /\ req[t].calls = 0
             /\ req[t].out.status = 200 /\ ~req[t].out.body.verified)

\* C37 amended: the same for the writes that succeed and for the verifies
\* whose cache read succeeds.
C37_NotFoundIsCachedAndServedWhenCacheAnswers ==
  /\ [][\A t \in Threads :
          (req[t].pc = "v_set" /\ req'[t].pc = "done" /\ ~req'[t].werr)
             => CachedByStep(t)]_vars
  /\ [](\A t \in Threads :
          (FoundNotFound(t) /\ req[t].got.ok) =>
             /\ req[t].calls = 0
             /\ req[t].out.status = 200 /\ ~req[t].out.body.verified)

\* C37 witness: one verify has stored the not-found result of its ledger
\* call and a later verify of the same hash has been answered verified=false
\* from that entry without a ledger call.
C37_Witness ==
  \E t, u \in Threads :
    /\ t # u /\ req[t].key = req[u].key
    /\ req[t].pc = "done" /\ req[t].op \in VerifyOps
    /\ req[t].calls = 1 /\ req[t].writes = 1 /\ ~req[t].werr
    /\ ~req[t].resp.verified
    /\ FoundNotFound(u) /\ req[u].got.ok /\ req[u].calls = 0
    /\ ~req[u].overlap /\ ~req[u].out.body.verified

(* ------------- C38: an anchored hash and the match test ---------------- *)
\* Valid hashes: 64 hexadecimal digits, in runs of two digits.
AnchoredHashes ==
  { h \in { Rep(a, k) \o Rep(b, Sha256HexLen - k) :
              a \in {"0", "a", "f"}, b \in {"a", "7"}, k \in 0..Sha256HexLen } :
      ValidationError(Normalize(h)) = "none" }

\* The bytes each character of a string takes in UTF-8; a hexadecimal digit
\* takes one.
Utf8Lens(str) == [i \in 1..Len(str) |-> 1]

\* stellar.rs:350: truncate_memo(document_hash) on a string of one-byte
\* characters: the characters of the prefix it keeps.
MemoOf(hash) == SubSeq(hash, 1, Len(TruncateMemo(Utf8Lens(hash))))

InitAnchor ==
  /\ InitCoreIdle
  /\ max_attempts = 1
  /\ InitVerifyIdle /\ InitCacheIdle /\ InitHookIdle
  /\ hh = [pc |-> "idle"]
  /\ calc \in { [fn |-> "submit_hash", hash |-> h, records |-> << >>,
                 found |-> FALSE] : h \in AnchoredHashes }

\* stellar.rs:342-368: submit_hash; the ledger holds the transaction with
\* the memo it was given.
SubmitCall ==
  /\ calc.fn = "submit_hash"
  /\ calc' = [calc EXCEPT !.fn = "anchored",
                          !.records = << Transaction("tx1", SomeMemo(MemoOf(calc.hash)),
                                                     "2024-01-01T00:00:00Z") >>]
  /\ UNCHANGED <<coreVars, verifyVars, cacheVars, hookVars, hh>>

\* stellar.rs:184-201: verify_hash of the same hash on the ledger's records
AnchoredVerify ==
  /\ calc.fn = "anchored"
  /\ calc' = [calc EXCEPT !.fn = "verify_hash",
                          !.found = HasMatch(calc.records, calc.hash)]
  /\ UNCHANGED <<coreVars, verifyVars, cacheVars, hookVars, hh>>

\* stellar.rs:413-429: get_hash_history of the same hash
AnchoredHistory ==
  /\ calc.fn = "anchored"
  /\ calc' = [calc EXCEPT !.fn = "get_hash_history",
                          !.found = MatchingRecords(calc.records, calc.hash) # << >>]
  /\ UNCHANGED <<coreVars, verifyVars, cacheVars, hookVars, hh>>

NextAnchor == SubmitCall \/ AnchoredVerify \/ AnchoredHistory

SpecAnchor == InitAnchor /\ [][NextAnchor]_vars

\* C38: the memo submit_hash writes for a valid 64-character hash has at
\* most 28 bytes and contains the hash, so a later verify_hash or
\* get_hash_history of that hash finds the transaction.
C38_AnchoredHashIsFound ==
  /\ calc.fn # "submit_hash" =>
        /\ Len(calc.records[1].memo.text) <= MAX_MEMO_LENGTH
        /\ Contains(calc.records[1].memo.text, calc.hash)
  /\ calc.fn \in {"verify_hash", "get_hash_history"} => calc.found

(* ------------- C39: concurrent verifies of one uncached hash ------------ *)
\* The cache read of the request r was a miss: lib.rs:278, 413 did not match
\* Ok(Some(cached)).
Missed(r) ==
  /\ r.reads = 1
  /\ ~(r.got.ok /\ r.got.some /\ DeVerifyResponse(r.got.val).ok)

\* The verifies there have been are one per task, all of the same valid
\* hash: each has missed and returned.
AllMissedOneHash ==
  /\ nreq = Cardinality(Threads)
  /\ \A t \in Threads : req[t].pc = "done" /\ Missed(req[t])
  /\ \A t, u \in Threads : req[t].key = req[u].key

\* No verify step of a task waits for another task.
NoVerifyStepWaits ==
  \A t \in Threads :
    /\ req[t].pc = "v_get" => ENABLED VGet(t, FALSE)
    /\ req[t].pc = "v_ledger" => ENABLED VLedger(t, VOk(Unverified))
    /\ req[t].pc = "v_set" => ENABLED VSet(t, FALSE)

\* C39 (as stated): concurrent verify operations of the same uncached hash
\* never wait for each other; each one that misses makes one ledger call and
\* one cache write; once all have finished the cache holds an entry for the
\* hash that equals the response of one of them.
C39_EachMissCallsAndWrites ==
  /\ NoVerifyStepWaits
  /\ \A t \in Threads :
        (req[t].pc = "done" /\ Missed(req[t])) =>
           req[t].calls = 1 /\ req[t].writes = 1
  /\ AllMissedOneHash =>
        /\ Live(store, req[1].key, now)
        /\ \E t \in Threads : store[req[1].key].val = SerVerifyResponse(req[t].resp)

\* C39 (amended): concurrent verify operations of the same uncached hash
\* never wait for each other; each one that misses makes one ledger call
\* and, when that call succeeds, one cache write; once all have finished and
\* at least one of the writes succeeded, the cache entry for the hash equals
\* the response of an operation whose write succeeded.
C39_EachMissCallsAndWritesOnSuccess ==
  /\ NoVerifyStepWaits
  /\ \A t \in Threads :
        (req[t].pc = "done" /\ Missed(req[t])) =>
           /\ req[t].calls = 1
           /\ req[t].writes = (IF req[t].lerr THEN 0 ELSE 1)
  /\ (AllMissedOneHash /\ \E t \in Threads : req[t].writes = 1 /\ ~req[t].werr) =>
        /\ Live(store, req[1].key, now)
        /\ \E t \in Threads :
              /\ req[t].writes = 1 /\ ~req[t].werr
              /\ store[req[1].key].val = SerVerifyResponse(req[t].resp)

\* A batch listing one hash twice: both items missed while the other was
\* under way, the ledger gave them different results, both wrote, and the
\* entry is the response of one of them.
C39_Witness ==
  /\ batch.pc = "running" /\ Len(batch.hashes) = 2
  /\ Normalize(batch.hashes[1]) = Normalize(batch.hashes[2])
  /\ AllMissedOneHash
  /\ \A t \in Threads : req[t].overlap /\ ~req[t].present /\ req[t].writes = 1 /\ ~req[t].werr
  /\ req[1].resp # req[2].resp
  /\ Live(store, req[1].key, now)
  /\ store[req[1].key].val \in { SerVerifyResponse(req[t].resp) : t \in Threads }

(* --------------------------- POST /revoke ------------------------------ *)
\* lib.rs:52-57: RevokeRequest bodies with the three fields
RevokeRequests ==
  { [document_hash |-> h, reason |-> r, revoked_by |-> b] :
      h \in RawHashes \cup { Rep("0", Sha256HexLen), Rep("f", Sha256HexLen) },
      r \in {"Test revocation", "Document superseded"},
      b \in {"test_user", "admin@example.com"} }

\* A request to POST /revoke, and the ledger it meets: whether the ledger
\* holds a record for the hash, the id it would give a submitted
\* transaction, and the revocations submitted to it.
InitRevoke ==
  /\ InitCoreIdle
  /\ max_attempts = 1
  /\ InitVerifyIdle /\ InitCacheIdle /\ InitHookIdle
  /\ hh = [pc |-> "idle"]
  /\ calc \in { [fn |-> "revoke_document", request |-> q, on_ledger |-> e,
                 ledger_tx |-> x, verify_calls |-> 0, submitted |-> << >>,
                 out |-> NoAnswer] :
                 q \in RevokeRequests, e \in BOOLEAN,
                 x \in {"revoke_tx_123", "revoke_tx_456", "revoke_tx_789"} }

\* lib.rs:500-516: revoke_document: the hash is normalized and validated;
\* a valid hash is answered 404 without a call to the ledger.
RevokeDocument ==
  /\ calc.fn = "revoke_document"
  /\ LET e == ValidationError(Normalize(calc.request.document_hash))
     IN calc' = [calc EXCEPT
                   !.fn = "answered",
                   !.out = IF e # "none"
                           THEN Answer(400, ErrorBody(e))
                           ELSE Answer(404, ErrorBody("revoke endpoint not yet implemented"))]
  /\ UNCHANGED <<coreVars, verifyVars, cacheVars, hookVars, hh>>

NextRevoke == RevokeDocument

SpecRevoke == InitRevoke /\ [][NextRevoke]_vars

\* C40: POST /revoke with a valid hash, reason and revoked_by is answered
\* 404 "Document hash not found" with no revocation submitted when the
\* ledger has no record for the hash, and 200 with the ledger's transaction
\* id after one revocation has been submitted when it has.
C40_RevokeAnswersByLedgerRecord ==
  (calc.fn = "answered"
     /\ ValidationError(Normalize(calc.request.document_hash)) = "none") =>
     IF calc.on_ledger
     THEN /\ calc.out.status = 200
          /\ Len(calc.submitted) = 1
          /\ calc.out.body.transaction_id = calc.ledger_tx
     ELSE /\ calc.out.status = 404
          /\ calc.submitted = << >>
          /\ calc.out.body.error = "Document hash not found"

====
